---------------------------- MODULE Spec2Model ----------------------------
(***************************************************************************)
(* A model of Tiled's Preferences facade (src/tiled/preferences.cpp): the  *)
(* settings store behind typed getters and setters, the change signals,    *)
(* the constructor (start-up loading and migration), the debounced session *)
(* save, the object types file watcher and the plugin lists.               *)
(*                                                                         *)
(* A stored setting is modelled as a set: {} when the key is absent and    *)
(* {v} when it holds v (a QVariant).  Enumerators are modelled by their    *)
(* names.                                                                  *)
(***************************************************************************)
EXTENDS Integers, Sequences, FiniteSets, TLC

VARIABLES
    settings,                   \* the QSettings store: key -> {} or {value}
    mSession,                   \* Preferences::mSession
    sessionFiles,               \* session files on disk: file name -> {} or {saved session}
    mSaveSessionTimer,          \* [active, left]: the single-shot save timer
    batch,                      \* history: saveSession requests and writes of the current batch
    pluginStates,               \* PluginManager::pluginStates(): file -> PluginState
    mWatcher,                   \* FileSystemWatcher: the set of watched paths
    objectTypes,                \* Object::objectTypes()
    mObjectTypesFileLastSaved,  \* Preferences::mObjectTypesFileLastSaved
    disk,                       \* object types files on disk: path -> [mtime, content]
    currentDocument,            \* DocumentManager::currentDocument(): {} or {file name}
    today,                      \* QDate::currentDate()
    external,                   \* SaveFile / TilesetManager flags set by the facade
    emitted,                    \* the signals emitted by the last operation, in order
    lastOp,                     \* history: the last operation and its argument
    steps                       \* history: number of operations performed (bounded)

vars == <<settings, mSession, sessionFiles, mSaveSessionTimer, batch, pluginStates,
          mWatcher, objectTypes, mObjectTypesFileLastSaved, disk, currentDocument,
          today, external, emitted, lastOp, steps>>

-----------------------------------------------------------------------------
(* Bounds of the model *)

MaxPrefCalls == 2

MaxSaveCalls == 3

MaxStartupSteps == 4

MaxObjectTypesSteps == 3

MaxPluginSteps == 3

MaxLastPathSteps == 3

MaxRecentProjectCalls == 5

MaxDonationSteps == 4

MaxUsageSteps == 4

MaxLegacySteps == 3

\* Preferences::MaxRecentFiles, kept small so that the list fills up
MaxRecentFiles == 3

\* The step of the clock, in ms
TickMs == 400

\* mSaveSessionTimer.setInterval(1000)
SaveInterval == 1000

-----------------------------------------------------------------------------
(* The settings store *)

Q_OS_MAC == FALSE

BoolKeys ==
    { "Interface/ShowGrid", "Interface/ShowTileObjectOutlines",
      "Interface/ShowTileAnimations", "Interface/ShowTileCollisionShapes",
      "Interface/ShowObjectReferences", "Interface/SnapToGrid",
      "Interface/SnapToFineGrid", "Interface/SnapToPixels",
      "Interface/HighlightCurrentLayer", "Interface/HighlightHoveredObject",
      "Interface/ShowTilesetGrid", "Interface/LabelForHoveredObject",
      "SafeSavingEnabled", "Storage/SafeSavingEnabled", "Storage/ExportOnSave",
      "Export/EmbedTilesets", "Export/DetachTemplateInstances",
      "Export/ResolveObjectTypesAndProperties", "Export/Minimized",
      "Storage/ReloadTilesets", "Interface/OpenGL", "Install/IsPatron",
      "Install/CheckForUpdates", "Install/DisplayNews",
      "Interface/WheelZoomsByDefault", "Startup/RestorePreviousSession" }

OtherKeys ==
    { "Interface/GridColor", "Interface/GridFine", "Interface/ObjectLineWidth",
      "Interface/ObjectLabelVisibility", "Interface/ApplicationStyle",
      "Interface/BaseColor", "Interface/SelectionColor", "Interface/Language",
      "Storage/LayerDataFormat", "Storage/MapRenderOrder" }

\* The keys the constructor offers to the session, with the session key each
\* one is migrated to (the migrateToSession calls, in order).
Migrations ==
    << <<"Automapping/WhileDrawing", "automapping.whileDrawing">>,
       <<"LoadedWorlds", "loadedWorlds">>,
       <<"Storage/StampsDirectory", "stampsFolder">>,
       <<"Map/Orientation", "map.orientation">>,
       <<"Storage/LayerDataFormat", "map.layerDataFormat">>,
       <<"Storage/MapRenderOrder", "map.renderOrder">>,
       <<"Map/FixedSize", "map.fixedSize">>,
       <<"Map/Width", "map.width">>,
       <<"Map/Height", "map.height">>,
       <<"Map/TileWidth", "map.tileWidth">>,
       <<"Map/TileHeight", "map.tileHeight">>,
       <<"Tileset/Type", "tileset.type">>,
       <<"Tileset/EmbedInMap", "tileset.embedInMap">>,
       <<"Tileset/UseTransparentColor", "tileset.useTransparentColor">>,
       <<"Tileset/TransparentColor", "tileset.transparentColor">>,
       <<"Tileset/TileSize", "tileset.tileSize">>,
       <<"Tileset/Spacing", "tileset.spacing">>,
       <<"Tileset/Margin", "tileset.margin">>,
       <<"AddPropertyDialog/PropertyType", "property.type">>,
       <<"Console/History", "console.history">>,
       <<"SaveAsImage/VisibleLayersOnly", "exportAsImage.visibleLayersOnly">>,
       <<"SaveAsImage/CurrentScale", "exportAsImage.useCurrentScale">>,
       <<"SaveAsImage/DrawGrid", "exportAsImage.drawTileGrid">>,
       <<"SaveAsImage/IncludeBackgroundColor", "exportAsImage.includeBackgroundColor">>,
       <<"ResizeMap/RemoveObjects", "resizeMap.removeObjects">>,
       <<"Animation/FrameDuration", "frame.defaultDuration">>,
       <<"lastUsedExportFilter", "map.lastUsedExportFilter">>,
       <<"lastUsedMapFormat", "map.lastUsedFormat">>,
       <<"lastUsedOpenFilter", "file.lastUsedOpenFilter">>,
       <<"lastUsedTilesetExportFilter", "tileset.lastUsedExportFilter">>,
       <<"lastUsedTilesetFilter", "tileset.lastUsedFilter">>,
       <<"lastUsedTilesetFormat", "tileset.lastUsedFormat">> >>

MigratedKeys == {Migrations[i][1] : i \in 1..Len(Migrations)}

SessionKeys == {Migrations[i][2] : i \in 1..Len(Migrations)}

\* The legacy groups.  The keys of the group recentFiles are entries of the
\* store, and so is a setting named recentFiles itself, which a store may or
\* may not hold beside them.  The group ObjectTypes (Names, Colors), which is
\* only read by its keys and removed as a whole, is one entry of the store
\* holding a record of its keys.
GroupKeys ==
    { "recentFiles", "recentFiles/fileNames", "recentFiles/lastOpenFiles",
      "recentFiles/lastActive", "ObjectTypes" }

\* The keys of the store that lie below a key
ChildKeys(key) ==
    IF key = "recentFiles"
    THEN {"recentFiles/fileNames", "recentFiles/lastOpenFiles", "recentFiles/lastActive"}
    ELSE {}

LastPathKeys ==
    { "LastPaths/ExportedFile", "LastPaths/ExternalTileset", "LastPaths/Images",
      "LastPaths/ObjectTemplates", "LastPaths/ObjectTypes", "LastPaths/Project",
      "LastPaths/WorldFile" }

StartupKeys ==
    { "MapEditor/MapStates", "Plugins/Disabled", "Plugins/Enabled",
      "Install/PatreonDialogTime", "Install/DonationDialogTime", "Install/FirstRun",
      "Install/RunCount", "Project/LastSession", "Project/RecentProjects",
      "Storage/ObjectTypesFile" }

Keys == BoolKeys \cup OtherKeys \cup MigratedKeys \cup GroupKeys \cup LastPathKeys
            \cup StartupKeys

NoSettings == [k \in Keys |-> {}]

\* QSettings::value(key, default).value<T>()
get(s, key, default) == IF s[key] = {} THEN default ELSE CHOOSE v \in s[key] : TRUE

\* QSettings::setValue(key, value)
setValue(s, key, v) == [s EXCEPT ![key] = {v}]

\* QSettings::contains(key): there is a setting of exactly this name; the
\* keys below it do not count
contains(s, key) == s[key] # {}

\* QSettings::remove(key): the setting and all the keys below it
remove(s, key) ==
    [k \in Keys |-> IF k = key \/ k \in ChildKeys(key) THEN {} ELSE s[k]]

\* get<T>("ObjectTypes/key") of a key inside the group ObjectTypes
getInGroup(s, group, field, default) ==
    IF s[group] = {} THEN default ELSE (CHOOSE v \in s[group] : TRUE)[field]

-----------------------------------------------------------------------------
(* Colours: a QColor is [rgb, alpha]; QColor::name() is "#rrggbb" and drops *)
(* alpha; reading a colour back builds an opaque QColor from the name.      *)

Opaque == "ff"

Translucent == "80"

Colors == [rgb : {"#000000", "#ff0000"}, alpha : {Opaque, Translucent}]

ColorName(c) == c.rgb

QColorFromName(n) == [rgb |-> n, alpha |-> Opaque]

ObjectLabelVisiblity == {"NoObjectLabels", "SelectedObjectLabels", "AllObjectLabels"}

ApplicationStyle == {"SystemDefaultStyle", "FusionStyle", "TiledStyle"}

LayerDataFormat == {"XML", "Base64", "CSV"}

RenderOrder == {"RightDown", "LeftUp"}

ExportOption ==
    {"EmbedTilesets", "DetachTemplateInstances", "ResolveObjectTypesAndProperties",
     "ExportMinimized"}

Languages == {"", "nl"}

-----------------------------------------------------------------------------
(* Getters: each reads one key of the store s with its default *)

showGrid(s) == get(s, "Interface/ShowGrid", TRUE)

showTileObjectOutlines(s) == get(s, "Interface/ShowTileObjectOutlines", FALSE)

showTileAnimations(s) == get(s, "Interface/ShowTileAnimations", TRUE)

showTileCollisionShapes(s) == get(s, "Interface/ShowTileCollisionShapes", FALSE)

showObjectReferences(s) == get(s, "Interface/ShowObjectReferences", TRUE)

snapToGrid(s) == get(s, "Interface/SnapToGrid", FALSE)

snapToFineGrid(s) == get(s, "Interface/SnapToFineGrid", FALSE)

snapToPixels(s) == get(s, "Interface/SnapToPixels", FALSE)

gridColor(s) ==
    IF s["Interface/GridColor"] = {} THEN [rgb |-> "#000000", alpha |-> Opaque]
    ELSE QColorFromName(get(s, "Interface/GridColor", ""))

gridFine(s) == get(s, "Interface/GridFine", 4)

objectLineWidth(s) == get(s, "Interface/ObjectLineWidth", 2)

highlightCurrentLayer(s) == get(s, "Interface/HighlightCurrentLayer", FALSE)

highlightHoveredObject(s) == get(s, "Interface/HighlightHoveredObject", TRUE)

showTilesetGrid(s) == get(s, "Interface/ShowTilesetGrid", TRUE)

objectLabelVisibility(s) == get(s, "Interface/ObjectLabelVisibility", "AllObjectLabels")

labelForHoveredObject(s) == get(s, "Interface/LabelForHoveredObject", FALSE)

applicationStyle(s) ==
    IF Q_OS_MAC THEN get(s, "Interface/ApplicationStyle", "SystemDefaultStyle")
    ELSE get(s, "Interface/ApplicationStyle", "TiledStyle")

baseColor(s) ==
    IF s["Interface/BaseColor"] = {} THEN [rgb |-> "#c0c0c0", alpha |-> Opaque]
    ELSE QColorFromName(get(s, "Interface/BaseColor", ""))

selectionColor(s) ==
    IF s["Interface/SelectionColor"] = {} THEN [rgb |-> "#308cc6", alpha |-> Opaque]
    ELSE QColorFromName(get(s, "Interface/SelectionColor", ""))

layerDataFormat(s) == get(s, "Storage/LayerDataFormat", "CSV")

mapRenderOrder(s) == get(s, "Storage/MapRenderOrder", "RightDown")

safeSavingEnabled(s) == get(s, "SafeSavingEnabled", TRUE)

exportOnSave(s) == get(s, "Storage/ExportOnSave", FALSE)

ExportOptionKey(option) ==
    CASE option = "EmbedTilesets" -> "Export/EmbedTilesets"
      [] option = "DetachTemplateInstances" -> "Export/DetachTemplateInstances"
      [] option = "ResolveObjectTypesAndProperties" -> "Export/ResolveObjectTypesAndProperties"
      [] option = "ExportMinimized" -> "Export/Minimized"

exportOption(s, option) ==
    CASE option = "EmbedTilesets" -> get(s, "Export/EmbedTilesets", FALSE)
      [] option = "DetachTemplateInstances" -> get(s, "Export/DetachTemplateInstances", FALSE)
      [] option = "ResolveObjectTypesAndProperties" ->
             get(s, "Export/ResolveObjectTypesAndProperties", FALSE)
      [] option = "ExportMinimized" -> get(s, "Export/Minimized", FALSE)
      [] OTHER -> FALSE

exportOptions(s) ==
    {o \in {"EmbedTilesets"} : get(s, "Export/EmbedTilesets", FALSE)}
    \cup {o \in {"DetachTemplateInstances"} : get(s, "Export/DetachTemplateInstances", FALSE)}
    \cup {o \in {"ResolveObjectTypesAndProperties"} :
              get(s, "Export/ResolveObjectTypesAndProperties", FALSE)}
    \cup {o \in {"ExportMinimized"} : get(s, "Export/Minimized", FALSE)}

language(s) == get(s, "Interface/Language", "")

reloadTilesetsOnChange(s) == get(s, "Storage/ReloadTilesets", TRUE)

useOpenGL(s) == get(s, "Interface/OpenGL", FALSE)

isPatron(s) == get(s, "Install/IsPatron", FALSE)

checkForUpdates(s) == get(s, "Install/CheckForUpdates", TRUE)

displayNews(s) == get(s, "Install/DisplayNews", TRUE)

wheelZoomsByDefault(s) == get(s, "Interface/WheelZoomsByDefault", FALSE)

restoreSessionOnStartup(s) == get(s, "Startup/RestorePreviousSession", TRUE)

-----------------------------------------------------------------------------
(* Setters.  A call leaves the store s1, the signals sigs (in emission      *)
(* order) and the collaborators' flags ext; everything else is untouched.   *)

\* A signal as a listener sees it: its name and what the store holds under
\* the setting's key at the moment of emission.
Emit(signal, s, key) == [signal |-> signal, stored |-> s[key]]

Call(op, arg, s1, sigs, ext) ==
    /\ settings' = s1
    /\ emitted' = sigs
    /\ external' = ext
    /\ lastOp' = [op |-> op, arg |-> {arg}]
    /\ steps' = steps + 1
    /\ UNCHANGED <<mSession, sessionFiles, mSaveSessionTimer, batch, pluginStates,
                   mWatcher, objectTypes, mObjectTypesFileLastSaved, disk,
                   currentDocument, today>>

\* A slip: the signal is emitted before the key is written.
SetAndEmit_EmitFirst(op, arg, key, v, signal) ==
    Call(op, arg, setValue(settings, key, v), <<Emit(signal, settings, key)>>, external)

\* setValue(key, value); emit signal(value);
SetAndEmit(op, arg, key, v, signal) ==
    LET s1 == setValue(settings, key, v)
    IN Call(op, arg, s1, <<Emit(signal, s1, key)>>, external)

\* setValue(key, value); with no signal
SetSilently(op, arg, key, v) ==
    Call(op, arg, setValue(settings, key, v), <<>>, external)

setObjectLabelVisibility(visibility) ==
    SetAndEmit("setObjectLabelVisibility", visibility,
               "Interface/ObjectLabelVisibility", visibility, "objectLabelVisibilityChanged")

setLabelForHoveredObject(enabled) ==
    SetAndEmit("setLabelForHoveredObject", enabled,
               "Interface/LabelForHoveredObject", enabled, "labelForHoveredObjectChanged")

setApplicationStyle(style) ==
    SetAndEmit("setApplicationStyle", style,
               "Interface/ApplicationStyle", style, "applicationStyleChanged")

setBaseColor(color) ==
    SetAndEmit("setBaseColor", color,
               "Interface/BaseColor", ColorName(color), "baseColorChanged")

setSelectionColor(color) ==
    SetAndEmit("setSelectionColor", color,
               "Interface/SelectionColor", ColorName(color), "selectionColorChanged")

setShowGrid(v) ==
    SetAndEmit("setShowGrid", v, "Interface/ShowGrid", v, "showGridChanged")

setShowTileObjectOutlines(enabled) ==
    SetAndEmit("setShowTileObjectOutlines", enabled,
               "Interface/ShowTileObjectOutlines", enabled, "showTileObjectOutlinesChanged")

setShowTileAnimations(enabled) ==
    LET s1 == setValue(settings, "Interface/ShowTileAnimations", enabled)
    IN Call("setShowTileAnimations", enabled, s1,
            <<Emit("showTileAnimationsChanged", s1, "Interface/ShowTileAnimations")>>,
            [external EXCEPT !.animateTiles = enabled])

setShowTileCollisionShapes(enabled) ==
    SetAndEmit("setShowTileCollisionShapes", enabled,
               "Interface/ShowTileCollisionShapes", enabled, "showTileCollisionShapesChanged")

setShowObjectReferences(enabled) ==
    SetAndEmit("setShowObjectReferences", enabled,
               "Interface/ShowObjectReferences", enabled, "showObjectReferencesChanged")

setSnapToGrid(v) ==
    SetAndEmit("setSnapToGrid", v, "Interface/SnapToGrid", v, "snapToGridChanged")

setSnapToFineGrid(v) ==
    SetAndEmit("setSnapToFineGrid", v, "Interface/SnapToFineGrid", v, "snapToFineGridChanged")

setSnapToPixels(v) ==
    SetAndEmit("setSnapToPixels", v, "Interface/SnapToPixels", v, "snapToPixelsChanged")

setGridColor(color) ==
    SetAndEmit("setGridColor", color,
               "Interface/GridColor", ColorName(color), "gridColorChanged")

setGridFine(v) ==
    SetAndEmit("setGridFine", v, "Interface/GridFine", v, "gridFineChanged")

setObjectLineWidth(lineWidth) ==
    SetAndEmit("setObjectLineWidth", lineWidth,
               "Interface/ObjectLineWidth", lineWidth, "objectLineWidthChanged")

setHighlightCurrentLayer(highlight) ==
    SetAndEmit("setHighlightCurrentLayer", highlight,
               "Interface/HighlightCurrentLayer", highlight, "highlightCurrentLayerChanged")

setHighlightHoveredObject(highlight) ==
    SetAndEmit("setHighlightHoveredObject", highlight,
               "Interface/HighlightHoveredObject", highlight, "highlightHoveredObjectChanged")

setShowTilesetGrid(v) ==
    SetAndEmit("setShowTilesetGrid", v, "Interface/ShowTilesetGrid", v, "showTilesetGridChanged")

setLayerDataFormat(format) ==
    SetSilently("setLayerDataFormat", format, "Storage/LayerDataFormat", format)

setMapRenderOrder(order) ==
    SetSilently("setMapRenderOrder", order, "Storage/MapRenderOrder", order)

setSafeSavingEnabled(enabled) ==
    Call("setSafeSavingEnabled", enabled,
         setValue(settings, "Storage/SafeSavingEnabled", enabled), <<>>,
         [external EXCEPT !.safeSaving = enabled])

setExportOnSave(enabled) ==
    SetSilently("setExportOnSave", enabled, "Storage/ExportOnSave", enabled)

setExportOption(option, value) ==
    CASE option = "EmbedTilesets" ->
             SetSilently("setExportOption", <<option, value>>, "Export/EmbedTilesets", value)
      [] option = "DetachTemplateInstances" ->
             SetSilently("setExportOption", <<option, value>>,
                         "Export/DetachTemplateInstances", value)
      [] option = "ResolveObjectTypesAndProperties" ->
             SetSilently("setExportOption", <<option, value>>,
                         "Export/ResolveObjectTypesAndProperties", value)
      [] option = "ExportMinimized" ->
             SetSilently("setExportOption", <<option, value>>, "Export/Minimized", value)

setLanguage(lang) ==
    SetAndEmit("setLanguage", lang, "Interface/Language", lang, "languageChanged")

setReloadTilesetsOnChanged(reloadOnChanged) ==
    Call("setReloadTilesetsOnChanged", reloadOnChanged,
         setValue(settings, "Storage/ReloadTilesets", reloadOnChanged), <<>>,
         [external EXCEPT !.reloadTilesets = reloadOnChanged])

setUseOpenGL(v) ==
    SetAndEmit("setUseOpenGL", v, "Interface/OpenGL", v, "useOpenGLChanged")

setPatron(v) ==
    SetAndEmit("setPatron", v, "Install/IsPatron", v, "isPatronChanged")

setCheckForUpdates(on) ==
    SetAndEmit("setCheckForUpdates", on, "Install/CheckForUpdates", on, "checkForUpdatesChanged")

setDisplayNews(on) ==
    SetAndEmit("setDisplayNews", on, "Install/DisplayNews", on, "displayNewsChanged")

setRestoreSessionOnStartup(enabled) ==
    SetSilently("setRestoreSessionOnStartup", enabled,
                "Startup/RestorePreviousSession", enabled)

setWheelZoomsByDefault(mode) ==
    SetSilently("setWheelZoomsByDefault", mode, "Interface/WheelZoomsByDefault", mode)

-----------------------------------------------------------------------------
(* Dates.  A QDate is [y, m, d]; the invalid QDate is InvalidDate.  An ISO  *)
(* date string is the tuple <<y, m, d>> and the empty string is <<>>.       *)

InvalidDate == [y |-> 0, m |-> 0, d |-> 0]

IsLeapYear(y) == y % 4 = 0 /\ (y % 100 # 0 \/ y % 400 = 0)

DaysInMonth(y, m) ==
    CASE m = 2 -> IF IsLeapYear(y) THEN 29 ELSE 28
      [] m \in {4, 6, 9, 11} -> 30
      [] OTHER -> 31

Years == {2023, 2024}

Calendar == {dt \in [y : Years, m : 1..12, d : 1..31] : dt.d <= DaysInMonth(dt.y, dt.m)}

\* QDate::isValid()
IsValidDate(date) == date \in Calendar

RECURSIVE DaysBeforeMonth(_, _)
DaysBeforeMonth(y, m) ==
    IF m <= 1 THEN 0 ELSE DaysBeforeMonth(y, m - 1) + DaysInMonth(y, m - 1)

\* Days since the start of the calendar
DayNumber(date) ==
    365 * date.y + ((date.y - 1) \div 4) - ((date.y - 1) \div 100) + ((date.y - 1) \div 400)
        + DaysBeforeMonth(date.y, date.m) + date.d

\* QDate::daysTo(): 0 when either date is invalid
DaysTo(from, to) ==
    IF IsValidDate(from) /\ IsValidDate(to) THEN DayNumber(to) - DayNumber(from) ELSE 0

\* QDate::addDays(): invalid when the date is, or when the result leaves the calendar
AddDays(date, n) ==
    IF IsValidDate(date) /\ \E dt \in Calendar : DayNumber(dt) = DayNumber(date) + n
    THEN CHOOSE dt \in Calendar : DayNumber(dt) = DayNumber(date) + n
    ELSE InvalidDate

\* QDate::addMonths(1): the same day of the next month, or that month's last day
AddMonth(date) ==
    IF ~IsValidDate(date) THEN InvalidDate
    ELSE LET y == IF date.m = 12 THEN date.y + 1 ELSE date.y
             m == IF date.m = 12 THEN 1 ELSE date.m + 1
             d == IF date.d > DaysInMonth(y, m) THEN DaysInMonth(y, m) ELSE date.d
         IN IF y \in Years THEN [y |-> y, m |-> m, d |-> d] ELSE InvalidDate

\* QDate::toString(Qt::ISODate)
ToISODate(date) == IF IsValidDate(date) THEN <<date.y, date.m, date.d>> ELSE <<>>

\* QVariant(string).value<QDate>()
FromISODate(str) ==
    IF Len(str) = 3 /\ [y |-> str[1], m |-> str[2], d |-> str[3]] \in Calendar
    THEN [y |-> str[1], m |-> str[2], d |-> str[3]]
    ELSE InvalidDate

firstRun(s) == FromISODate(get(s, "Install/FirstRun", <<>>))

runCount(s) == get(s, "Install/RunCount", 0)

donationDialogTime(s) == FromISODate(get(s, "Install/DonationDialogTime", <<>>))

-----------------------------------------------------------------------------
(* Sessions.  Session is the session class of the application; its file is  *)
(* read by its constructor and written by save().                           *)

DefaultFileName == "default.tiled-session"

ProjectSession == "/proj/game.tiled-session"

SessionFileNames == {DefaultFileName, ProjectSession}

MapFiles == {"/maps/a.tmx", "/maps/b.tmx"}

EmptySession(fileName) ==
    [fileName |-> fileName, recentFiles |-> <<>>, openFiles |-> <<>>, activeFile |-> "",
     fileStates |-> [f \in MapFiles |-> {}], values |-> [k \in SessionKeys |-> {}]]

\* Session::Session(fileName): the saved session, or an empty one
LoadSession(fileName, files) ==
    IF fileName \in DOMAIN files /\ files[fileName] # {}
    THEN CHOOSE saved \in files[fileName] : TRUE
    ELSE EmptySession(fileName)

\* Session::save(), when it succeeds
SaveSession(session, files) ==
    [files EXCEPT ![session.fileName] = {session}]

\* Session::save() can succeed only for a session that has a file
CanSave(session) == session.fileName \in SessionFileNames

\* Session::setFileState(fileName, state)
SetFileState(session, fileName, state) ==
    [session EXCEPT !.fileStates[fileName] = {state}]

\* toSettingsValue(QPointF): the point as a map of its coordinates
toSettingsValue(point) == [x |-> point[1], y |-> point[2]]

\* migrateToSession<T>(preferencesKey, sessionKey): a session key that is
\* not set takes the value stored under the preferences key, if there is one
migrateToSession(s, session, preferencesKey, sessionKey) ==
    IF session.values[sessionKey] # {} \/ s[preferencesKey] = {}
    THEN session
    ELSE [session EXCEPT !.values[sessionKey] = s[preferencesKey]]

\* The preferences key migrated to a session key
MigratedFrom(sessionKey) ==
    Migrations[CHOOSE i \in 1..Len(Migrations) : Migrations[i][2] = sessionKey][1]

\* All the migrateToSession calls of the constructor.  Each call reads and
\* writes only its own session key, and no two calls share one, so the calls
\* in sequence leave under every session key what its own call leaves there.
MigrateAll(s, session) ==
    [session EXCEPT !.values =
        [k \in SessionKeys |-> migrateToSession(s, session, MigratedFrom(k), k).values[k]]]

lastSession(s) ==
    LET session == get(s, "Project/LastSession", "")
    IN IF session = "" THEN DefaultFileName ELSE session

-----------------------------------------------------------------------------
(* Object types and their file *)

DefaultObjectTypesFile == "/data/objecttypes.xml"

ProjectObjectTypesFile == "/proj/objecttypes.xml"

ObjectTypesPaths == {DefaultObjectTypesFile, ProjectObjectTypesFile}

\* QColor(name): an invalid colour for a string that names none
QColorFromString(n) ==
    IF n \in {"#000000", "#ff0000", "#00ff00"} THEN [rgb |-> n, alpha |-> Opaque]
    ELSE [rgb |-> "invalid", alpha |-> Opaque]

ObjectType(name, color) == [name |-> name, color |-> color]

\* A file that does not exist has no modification time (an invalid QDateTime)
InvalidTime == 0

NoFile == [mtime |-> InvalidTime, content |-> {}]

\* ObjectTypesSerializer::readObjectTypes(fileName, objectTypes): content is
\* {} for a file that is missing or malformed, and {types} otherwise
readObjectTypes(d, fileName) ==
    IF fileName \in DOMAIN d /\ d[fileName].content # {}
    THEN [success |-> TRUE, objectTypes |-> CHOOSE types \in d[fileName].content : TRUE]
    ELSE [success |-> FALSE, objectTypes |-> <<>>]

\* QFileInfo(fileName).lastModified()
lastModified(d, fileName) ==
    IF fileName \in DOMAIN d THEN d[fileName].mtime ELSE InvalidTime

objectTypesFile(s) ==
    LET file == get(s, "Storage/ObjectTypesFile", "")
    IN IF file = "" THEN DefaultObjectTypesFile ELSE file

\* FileSystemWatcher::addPath(path): a file that does not exist is not watched
addPath(watcher, d, path) ==
    IF lastModified(d, path) # InvalidTime THEN watcher \cup {path} ELSE watcher

\* FileSystemWatcher::removePath(path)
removePath(watcher, path) == watcher \ {path}

\* A slip: the lists are used only when they are equally long.
LegacyObjectTypes_SameLength(s) ==
    LET names == getInGroup(s, "ObjectTypes", "Names", <<>>)
        colors == getInGroup(s, "ObjectTypes", "Colors", <<>>)
    IN IF names # <<>> /\ Len(names) = Len(colors)
       THEN [i \in 1..Len(names) |-> ObjectType(names[i], QColorFromString(colors[i]))]
       ELSE <<>>

\* The legacy lists ObjectTypes/Names and ObjectTypes/Colors, paired up
LegacyObjectTypes(s) ==
    LET names == getInGroup(s, "ObjectTypes", "Names", <<>>)
        colors == getInGroup(s, "ObjectTypes", "Colors", <<>>)
        count == IF Len(names) < Len(colors) THEN Len(names) ELSE Len(colors)
    IN IF names # <<>>
       THEN [i \in 1..count |-> ObjectType(names[i], QColorFromString(colors[i]))]
       ELSE <<>>

-----------------------------------------------------------------------------
(* Plugins *)

\* The plugin files, in the key order of the plugin manager's map
PluginOrder == <<"libjson.so", "libpython.so", "libtmx.so">>

PluginFiles == {PluginOrder[i] : i \in 1..Len(PluginOrder)}

PluginState == {"PluginDefault", "PluginEnabled", "PluginDisabled", "PluginStatic"}

NoPluginStates == [f \in PluginFiles |-> "PluginDefault"]

\* PluginManager::setPluginState(fileName, state)
setPluginState(states, fileName, state) == [states EXCEPT ![fileName] = state]

RECURSIVE SetAll(_, _, _)
SetAll(states, fileNames, state) ==
    IF fileNames = <<>> THEN states
    ELSE SetAll(setPluginState(states, Head(fileNames), state), Tail(fileNames), state)

\* The constructor's two loops: the disabled plugins first, then the enabled
ApplyPluginLists(states, disabledPlugins, enabledPlugins) ==
    SetAll(SetAll(states, disabledPlugins, "PluginDisabled"), enabledPlugins, "PluginEnabled")

\* A slip: every file with a state of its own is listed.
PluginsInState_AnyState(states, state) ==
    SelectSeq(PluginOrder, LAMBDA f : states[f] # "PluginDefault")

\* The files of the map that are in the given state, in key order
PluginsInState(states, state) ==
    SelectSeq(PluginOrder, LAMBDA f : states[f] = state)

-----------------------------------------------------------------------------
(* The constructor, Preferences::Preferences(), as a function of what it    *)
(* finds: the store s, the session files, the object types files d, the     *)
(* current date, and whether saving the session succeeds.                   *)

\* mSession(restoreSessionOnStartup() ? lastSession() : Session::defaultFileName())
StartupSessionName(s) ==
    IF restoreSessionOnStartup(s) THEN lastSession(s) ELSE DefaultFileName

\* if (applicationStyle() == FusionStyle) setApplicationStyle(TiledStyle);
ReplaceFusionStyle(s) ==
    IF applicationStyle(s) = "FusionStyle"
    THEN LET s1 == setValue(s, "Interface/ApplicationStyle", "TiledStyle")
         IN [settings |-> s1,
             emitted |-> <<Emit("applicationStyleChanged", s1, "Interface/ApplicationStyle")>>]
    ELSE [settings |-> s, emitted |-> <<>>]

\* Retrieve defined object types: from the file, else from the legacy lists
StartupObjectTypes(s, d) ==
    LET read == readObjectTypes(d, objectTypesFile(s))
    IN IF ~read.success
       THEN [objectTypes |-> LegacyObjectTypes(s), settings |-> s, mWatcher |-> {}]
       ELSE [objectTypes |-> read.objectTypes,
             settings |-> remove(s, "ObjectTypes"),
             mWatcher |-> addPath({}, d, objectTypesFile(remove(s, "ObjectTypes")))]

\* The recent files, open files and active file of the legacy group, for a
\* store that holds a setting named recentFiles
MigrateRecentFiles(s, session) ==
    IF contains(s, "recentFiles")
    THEN [session EXCEPT
              !.recentFiles = get(s, "recentFiles/fileNames", <<>>),
              !.openFiles = get(s, "recentFiles/lastOpenFiles", <<>>),
              !.activeFile = get(s, "recentFiles/lastActive", "")]
    ELSE session

RECURSIVE SetFileStates(_, _, _)
SetFileStates(session, mapStates, fileNames) ==
    IF fileNames = {} THEN session
    ELSE LET fileName == CHOOSE f \in fileNames : TRUE
             mapState == [mapStates[fileName] EXCEPT
                              !.viewCenter = toSettingsValue(mapStates[fileName].viewCenter)]
         IN SetFileStates(SetFileState(session, fileName, mapState), mapStates,
                          fileNames \ {fileName})

\* The per-file view states of the legacy key MapEditor/MapStates
MigrateMapStates(s, session) ==
    IF contains(s, "MapEditor/MapStates")
    THEN LET mapStates == get(s, "MapEditor/MapStates", <<>>)
         IN SetFileStates(session, mapStates, DOMAIN mapStates)
    ELSE session

\* A slip: the map states are left in the store.
RemoveLegacyKeys_KeepMapStates(s) == remove(s, "recentFiles")

\* remove("recentFiles"); remove("MapEditor/MapStates");
RemoveLegacyKeys(s) == remove(remove(s, "recentFiles"), "MapEditor/MapStates")

\* A slip: the legacy keys are removed whether or not the session was saved.
MigrateManually_RemoveAnyway(s, session, files, saveOk) ==
    IF session.fileName = DefaultFileName
    THEN LET migrated == MigrateMapStates(s, MigrateRecentFiles(s, session))
         IN IF saveOk /\ CanSave(migrated)
            THEN [settings |-> RemoveLegacyKeys(s), mSession |-> migrated,
                  sessionFiles |-> SaveSession(migrated, files)]
            ELSE [settings |-> RemoveLegacyKeys(s), mSession |-> migrated,
                  sessionFiles |-> files]
    ELSE [settings |-> s, mSession |-> session, sessionFiles |-> files]

\* Migrate some preferences that need manual handling
MigrateManually(s, session, files, saveOk) ==
    IF session.fileName = DefaultFileName
    THEN LET migrated == MigrateMapStates(s, MigrateRecentFiles(s, session))
         IN IF saveOk /\ CanSave(migrated)
            THEN [settings |-> RemoveLegacyKeys(s), mSession |-> migrated,
                  sessionFiles |-> SaveSession(migrated, files)]
            ELSE [settings |-> s, mSession |-> migrated, sessionFiles |-> files]
    ELSE [settings |-> s, mSession |-> session, sessionFiles |-> files]

\* Read the lists of enabled and disabled plugins
StartupPluginStates(s) ==
    ApplyPluginLists(NoPluginStates, get(s, "Plugins/Disabled", <<>>),
                     get(s, "Plugins/Enabled", <<>>))

\* Keeping track of some usage information
MoveDialogTime(s) ==
    IF contains(s, "Install/PatreonDialogTime")
    THEN remove(setValue(s, "Install/DonationDialogTime",
                         get(s, "Install/PatreonDialogTime", <<>>)),
                "Install/PatreonDialogTime")
    ELSE s

InitFirstRun(s, date) ==
    IF ~IsValidDate(firstRun(s)) THEN setValue(s, "Install/FirstRun", ToISODate(date))
    ELSE s

\* A slip: a time that is due today is kept.
InitDonationDialogTime_DueToday(s, date) ==
    IF ~contains(s, "Install/DonationDialogTime")
    THEN LET donationDialogTime0 == AddMonth(firstRun(s))
             donationDialogTime1 == IF DaysTo(donationDialogTime0, date) > 0
                                    THEN AddDays(date, 2) ELSE donationDialogTime0
         IN setValue(s, "Install/DonationDialogTime", ToISODate(donationDialogTime1))
    ELSE s

InitDonationDialogTime(s, date) ==
    IF ~contains(s, "Install/DonationDialogTime")
    THEN LET donationDialogTime0 == AddMonth(firstRun(s))
             donationDialogTime1 == IF DaysTo(donationDialogTime0, date) >= 0
                                    THEN AddDays(date, 2) ELSE donationDialogTime0
         IN setValue(s, "Install/DonationDialogTime", ToISODate(donationDialogTime1))
    ELSE s

UsageInformation(s, date) ==
    LET s1 == InitDonationDialogTime(InitFirstRun(MoveDialogTime(s), date), date)
    IN setValue(s1, "Install/RunCount", runCount(s1) + 1)

Construct(s, files, d, date, saveOk) ==
    LET fusion == ReplaceFusionStyle(s)
        loaded == StartupObjectTypes(fusion.settings, d)
        offered == MigrateAll(loaded.settings,
                              LoadSession(StartupSessionName(s), files))
        manual == MigrateManually(loaded.settings, offered, files, saveOk)
    IN [settings |-> UsageInformation(manual.settings, date),
        mSession |-> manual.mSession,
        sessionFiles |-> manual.sessionFiles,
        mWatcher |-> loaded.mWatcher,
        objectTypes |-> loaded.objectTypes,
        pluginStates |-> StartupPluginStates(manual.settings),
        external |-> [safeSaving |-> safeSavingEnabled(s),
                      reloadTilesets |-> reloadTilesetsOnChange(manual.settings),
                      animateTiles |-> showTileAnimations(manual.settings)],
        emitted |-> fusion.emitted]

IdleTimer == [active |-> FALSE, left |-> 0]

NoBatch == [requests |-> 0, writes |-> 0]

\* The state of a process that has just constructed its Preferences
Constructed(s, files, d, date, saveOk) ==
    LET new == Construct(s, files, d, date, saveOk)
    IN /\ settings = new.settings
       /\ mSession = new.mSession
       /\ sessionFiles = new.sessionFiles
       /\ mWatcher = new.mWatcher
       /\ objectTypes = new.objectTypes
       /\ pluginStates = new.pluginStates
       /\ external = new.external
       /\ emitted = new.emitted
       /\ mSaveSessionTimer = IdleTimer
       /\ batch = NoBatch
       /\ mObjectTypesFileLastSaved = InvalidTime
       /\ currentDocument = {}
       /\ disk = d
       /\ today = date
       /\ lastOp = [op |-> "Preferences", arg |-> {saveOk}]
       /\ steps = 0

\* The next start of the application: a new process constructs its
\* Preferences over the store and the files the last one left
Preferences(saveOk) ==
    LET new == Construct(settings, sessionFiles, disk, today, saveOk)
    IN /\ settings' = new.settings
       /\ mSession' = new.mSession
       /\ sessionFiles' = new.sessionFiles
       /\ mWatcher' = new.mWatcher
       /\ objectTypes' = new.objectTypes
       /\ pluginStates' = new.pluginStates
       /\ external' = new.external
       /\ emitted' = new.emitted
       /\ mSaveSessionTimer' = IdleTimer
       /\ batch' = NoBatch
       /\ mObjectTypesFileLastSaved' = InvalidTime
       /\ currentDocument' = {}
       /\ lastOp' = [op |-> "Preferences", arg |-> {saveOk}]
       /\ steps' = steps + 1
       /\ UNCHANGED <<disk, today>>

\* What is on disk at a first start with nothing but the given settings
NoSessionFiles == [f \in SessionFileNames |-> {}]

NoDisk == [f \in ObjectTypesPaths |-> NoFile]

FirstDay == [y |-> 2023, m |-> 12, d |-> 30]

-----------------------------------------------------------------------------
(* Recent files *)

\* The file names handed to the facade, and the absolute, cleaned path of
\* each (QDir::cleanPath(QFileInfo(fileName).absoluteFilePath())) for a
\* process whose working directory is /maps
FileNames ==
    {"", "a.tmx", "/maps/a.tmx", "/maps/./b.tmx", "/maps/b.tmx", "/maps/c.tmx",
     "/maps/sub/../d.tmx"}

AbsoluteFilePath(fileName) ==
    CASE fileName = "" -> ""
      [] fileName \in {"a.tmx", "/maps/a.tmx"} -> "/maps/a.tmx"
      [] fileName \in {"/maps/./b.tmx", "/maps/b.tmx"} -> "/maps/b.tmx"
      [] fileName = "/maps/c.tmx" -> "/maps/c.tmx"
      [] fileName = "/maps/sub/../d.tmx" -> "/maps/d.tmx"

\* QStringList::removeAll(value)
removeAll(list, value) == SelectSeq(list, LAMBDA x : x # value)

\* while (files.size() > MaxRecentFiles) files.removeLast();
Truncated(list) ==
    IF Len(list) > MaxRecentFiles THEN SubSeq(list, 1, MaxRecentFiles) ELSE list

\* A slip: an earlier entry of the file is left in the list.
addToRecentFileList_KeepEarlier(fileName, files) ==
    LET absoluteFilePath == AbsoluteFilePath(fileName)
    IN IF absoluteFilePath = "" THEN files
       ELSE Truncated(<<absoluteFilePath>> \o files)

addToRecentFileList(fileName, files) ==
    LET absoluteFilePath == AbsoluteFilePath(fileName)
    IN IF absoluteFilePath = "" THEN files
       ELSE Truncated(<<absoluteFilePath>> \o removeAll(files, absoluteFilePath))

-----------------------------------------------------------------------------
(* The session and its debounced save *)

\* A call that touches the session, its timer or the last session
SessionCall(op, arg, s1, session1, files1, timer1, batch1, sigs) ==
    /\ settings' = s1
    /\ mSession' = session1
    /\ sessionFiles' = files1
    /\ mSaveSessionTimer' = timer1
    /\ batch' = batch1
    /\ emitted' = sigs
    /\ lastOp' = [op |-> op, arg |-> {arg}]
    /\ steps' = steps + 1
    /\ UNCHANGED <<pluginStates, mWatcher, objectTypes, mObjectTypesFileLastSaved, disk,
                   currentDocument, today, external>>

\* A slip: every request restarts the timer.
StartIfInactive_Restart(timer) == [active |-> TRUE, left |-> SaveInterval]

\* if (!mSaveSessionTimer.isActive()) mSaveSessionTimer.start();
StartIfInactive(timer) ==
    IF ~timer.active THEN [active |-> TRUE, left |-> SaveInterval] ELSE timer

\* History: a request opens a batch when the timer is idle and joins the
\* pending batch otherwise
Requested(b, timer) ==
    IF ~timer.active THEN [requests |-> 1, writes |-> 0]
    ELSE [b EXCEPT !.requests = @ + 1]

\* History: a write while the timer is pending is the write of that batch
Written(b, timer) ==
    IF timer.active THEN [b EXCEPT !.writes = @ + 1] ELSE b

saveSession ==
    SessionCall("saveSession", "", settings, mSession, sessionFiles,
                StartIfInactive(mSaveSessionTimer), Requested(batch, mSaveSessionTimer),
                <<>>)

\* mSession.addRecentFile(fileName); saveSession(); emit recentFilesChanged();
addRecentFile(fileName) ==
    SessionCall("addRecentFile", fileName, settings,
                [mSession EXCEPT !.recentFiles = addToRecentFileList(fileName, @)],
                sessionFiles,
                StartIfInactive(mSaveSessionTimer), Requested(batch, mSaveSessionTimer),
                <<[signal |-> "recentFilesChanged", stored |-> {}]>>)

clearRecentFiles ==
    SessionCall("clearRecentFiles", "", settings,
                [mSession EXCEPT !.recentFiles = <<>>], sessionFiles,
                StartIfInactive(mSaveSessionTimer), Requested(batch, mSaveSessionTimer),
                <<[signal |-> "recentFilesChanged", stored |-> {}]>>)

\* emit aboutToSaveSession(); mSaveSessionTimer.stop(); mSession.save();
SaveNow(op, saveOk) ==
    /\ mSaveSessionTimer' = IdleTimer
    /\ sessionFiles' = IF saveOk /\ CanSave(mSession)
                       THEN SaveSession(mSession, sessionFiles) ELSE sessionFiles
    /\ batch' = Written(batch, mSaveSessionTimer)
    /\ emitted' = <<[signal |-> "aboutToSaveSession", stored |-> {}]>>
    /\ lastOp' = [op |-> op, arg |-> {saveOk}]
    /\ UNCHANGED <<settings, mSession, pluginStates, mWatcher, objectTypes,
                   mObjectTypesFileLastSaved, disk, currentDocument, today, external>>

saveSessionNow(saveOk) == SaveNow("saveSessionNow", saveOk) /\ steps' = steps + 1

\* The timer's timeout signal, connected to saveSessionNow
Timeout(saveOk) ==
    /\ mSaveSessionTimer.active
    /\ mSaveSessionTimer.left = 0
    /\ SaveNow("timeout", saveOk)
    /\ UNCHANGED steps

\* Time passes while the timer is pending
TimePasses ==
    /\ mSaveSessionTimer.active
    /\ mSaveSessionTimer.left > 0
    /\ mSaveSessionTimer' =
           [mSaveSessionTimer EXCEPT !.left = IF @ > TickMs THEN @ - TickMs ELSE 0]
    /\ lastOp' = [op |-> "time passes", arg |-> {}]
    /\ emitted' = <<>>
    /\ UNCHANGED <<settings, mSession, sessionFiles, batch, pluginStates, mWatcher,
                   objectTypes, mObjectTypesFileLastSaved, disk, currentDocument, today,
                   external, steps>>

setLastSession(s, fileName) == setValue(s, "Project/LastSession", fileName)

\* A slip: the last session is not remembered.
SwitchedSettings_Forget(s, session) == s

\* setLastSession(mSession.fileName()), after mSession = std::move(session)
SwitchedSettings(s, session) == setLastSession(s, session.fileName)

switchSession(session) ==
    LET s1 == SwitchedSettings(settings, session)
    IN SessionCall("switchSession", session.fileName, s1, session, sessionFiles,
                   mSaveSessionTimer, batch,
                   <<[signal |-> "Session::notifySessionChanged",
                      stored |-> s1["Project/LastSession"]],
                     [signal |-> "recentFilesChanged",
                      stored |-> s1["Project/LastSession"]]>>)

InitSave ==
    Constructed(NoSettings, NoSessionFiles, NoDisk, FirstDay, TRUE)

NextSave ==
    \/ /\ steps < MaxSaveCalls
       /\ \/ saveSession
          \/ \E f \in FileNames : addRecentFile(f)
          \/ clearRecentFiles
          \/ \E ok \in BOOLEAN : saveSessionNow(ok)
    \/ TimePasses
    \/ \E ok \in BOOLEAN : Timeout(ok)

SpecSave == InitSave /\ [][NextSave]_vars

\* The event loop keeps running: time passes and a due timer fires
FairSpecSave ==
    SpecSave /\ WF_vars(TimePasses) /\ WF_vars(\E ok \in BOOLEAN : Timeout(ok))

-----------------------------------------------------------------------------
(* Starts of the application, one after the other, over a store that an     *)
(* older version may have left its keys in                                  *)

LegacyRecentFiles ==
    [fileNames |-> <<"/maps/a.tmx", "/maps/c.tmx">>,
     lastOpenFiles |-> <<"/maps/a.tmx">>,
     lastActive |-> "/maps/a.tmx"]

LegacyMapStates ==
    [f \in {"/maps/a.tmx"} |-> [viewCenter |-> <<16, 32>>, scale |-> 2]]

\* The keys an older version wrote below recentFiles
WithRecentFiles(s, recent) ==
    [s EXCEPT !["recentFiles/fileNames"] = {recent.fileNames},
              !["recentFiles/lastOpenFiles"] = {recent.lastOpenFiles},
              !["recentFiles/lastActive"] = {recent.lastActive}]

\* Stores with or without the keys below recentFiles, with or without a
\* setting named recentFiles, with or without the map states
LegacySettings ==
    {[s EXCEPT !["recentFiles"] = named, !["MapEditor/MapStates"] = states] :
         s \in {NoSettings, WithRecentFiles(NoSettings, LegacyRecentFiles)},
         named \in {{}, {"1"}}, states \in {{}, {LegacyMapStates}}}

InitStartup ==
    \E s \in LegacySettings, saveOk \in BOOLEAN :
        Constructed(s, NoSessionFiles, NoDisk, FirstDay, saveOk)

NextStartup ==
    /\ steps < MaxStartupSteps
    /\ \/ \E saveOk \in BOOLEAN : Preferences(saveOk)
       \/ \E name \in SessionFileNames \cup {""} :
              switchSession(LoadSession(name, sessionFiles))
       \/ \E v \in BOOLEAN : setRestoreSessionOnStartup(v)
       \/ \E f \in {"/maps/b.tmx", "a.tmx"} : addRecentFile(f)
       \/ \E saveOk \in BOOLEAN : saveSessionNow(saveOk)

SpecStartup == InitStartup /\ [][NextStartup]_vars

-----------------------------------------------------------------------------
(* The object types, their file and its watcher *)

ObjectTypesCall(op, arg, s1, watcher1, types1, lastSaved1, sigs) ==
    /\ settings' = s1
    /\ mWatcher' = watcher1
    /\ objectTypes' = types1
    /\ mObjectTypesFileLastSaved' = lastSaved1
    /\ emitted' = sigs
    /\ lastOp' = [op |-> op, arg |-> {arg}]
    /\ steps' = steps + 1
    /\ UNCHANGED <<mSession, sessionFiles, mSaveSessionTimer, batch, pluginStates, disk,
                   currentDocument, today, external>>

\* Object::setObjectTypes(objectTypes); emit objectTypesChanged();
setObjectTypes(types) ==
    ObjectTypesCall("setObjectTypes", types, settings, mWatcher, types,
                    mObjectTypesFileLastSaved,
                    <<[signal |-> "objectTypesChanged", stored |-> {}]>>)

\* A slip: the previous file stays watched.
Rewatched_KeepPrevious(watcher, d, previous, fileName) == addPath(watcher, d, fileName)

\* mWatcher.removePath(previousObjectTypesFile); ... mWatcher.addPath(fileName);
Rewatched(watcher, d, previous, fileName) ==
    addPath(IF previous # "" THEN removePath(watcher, previous) ELSE watcher, d, fileName)

setObjectTypesFile(fileName) ==
    LET previousObjectTypesFile == objectTypesFile(settings)
    IN IF previousObjectTypesFile = fileName
       THEN ObjectTypesCall("setObjectTypesFile", fileName, settings, mWatcher,
                            objectTypes, mObjectTypesFileLastSaved, <<>>)
       ELSE ObjectTypesCall("setObjectTypesFile", fileName,
                            setValue(settings, "Storage/ObjectTypesFile", fileName),
                            Rewatched(mWatcher, disk, previousObjectTypesFile, fileName),
                            objectTypes, mObjectTypesFileLastSaved, <<>>)

setObjectTypesFileLastSaved(time) ==
    ObjectTypesCall("setObjectTypesFileLastSaved", time, settings, mWatcher, objectTypes,
                    time, <<>>)

\* A slip: the file is reloaded whatever its time.
SavedByUs_Never(d, fileName, lastSaved) == FALSE

\* fileInfo.lastModified() == mObjectTypesFileLastSaved
SavedByUs(d, fileName, lastSaved) == lastModified(d, fileName) = lastSaved

\* The slot connected to the watcher's fileChanged signal
objectTypesFileChangedOnDisk ==
    /\ mWatcher # {}
    /\ LET fileName == objectTypesFile(settings)
           read == readObjectTypes(disk, fileName)
       IN IF SavedByUs(disk, fileName, mObjectTypesFileLastSaved) \/ ~read.success
          THEN ObjectTypesCall("objectTypesFileChangedOnDisk", fileName, settings,
                               mWatcher, objectTypes, mObjectTypesFileLastSaved, <<>>)
          ELSE ObjectTypesCall("objectTypesFileChangedOnDisk", fileName, settings,
                               mWatcher, read.objectTypes, mObjectTypesFileLastSaved,
                               <<[signal |-> "objectTypesChanged", stored |-> {}]>>)

\* Some program (this one included) writes, damages or deletes a file
FileWritten(path, file) ==
    /\ disk[path] # file
    /\ disk' = [disk EXCEPT ![path] = file]
    /\ lastOp' = [op |-> "file written", arg |-> {path}]
    /\ emitted' = <<>>
    /\ steps' = steps + 1
    /\ UNCHANGED <<settings, mSession, sessionFiles, mSaveSessionTimer, batch, pluginStates,
                   mWatcher, objectTypes, mObjectTypesFileLastSaved, currentDocument,
                   today, external>>

Red == [rgb |-> "#ff0000", alpha |-> Opaque]

Green == [rgb |-> "#00ff00", alpha |-> Opaque]

TypesA == <<ObjectType("Enemy", Red)>>

TypesB == <<ObjectType("Enemy", Green), ObjectType("Door", Red)>>

MorningFile == [mtime |-> 1, content |-> {TypesA}]

EveningFile == [mtime |-> 2, content |-> {TypesB}]

DamagedFile == [mtime |-> 2, content |-> {}]

LegacyObjectTypeLists ==
    { [Names |-> <<"Enemy", "Door">>, Colors |-> <<"#ff0000">>],
      [Names |-> <<"Enemy">>, Colors |-> <<"bogus", "#00ff00">>],
      [Names |-> <<>>, Colors |-> <<"#ff0000">>] }

InitObjectTypes ==
    \E group \in {{}} \cup {{l} : l \in LegacyObjectTypeLists},
       file \in {{}, {ProjectObjectTypesFile}},
       d \in [ObjectTypesPaths -> {NoFile, MorningFile, DamagedFile}] :
        Constructed([NoSettings EXCEPT !["ObjectTypes"] = group,
                                       !["Storage/ObjectTypesFile"] = file],
                    NoSessionFiles, d, FirstDay, TRUE)

NextObjectTypes ==
    /\ steps < MaxObjectTypesSteps
    /\ \/ Preferences(TRUE)
       \/ \E f \in ObjectTypesPaths \cup {""} : setObjectTypesFile(f)
       \/ \E time \in {InvalidTime, 1, 2} : setObjectTypesFileLastSaved(time)
       \/ objectTypesFileChangedOnDisk
       \/ \E path \in ObjectTypesPaths,
             file \in {NoFile, MorningFile, EveningFile, DamagedFile} :
              FileWritten(path, file)
       \/ setObjectTypes(TypesA)

SpecObjectTypes == InitObjectTypes /\ [][NextObjectTypes]_vars

-----------------------------------------------------------------------------
(* Plugins enabled and disabled *)

PluginCall(op, arg, s1, states1) ==
    /\ settings' = s1
    /\ pluginStates' = states1
    /\ emitted' = <<>>
    /\ lastOp' = [op |-> op, arg |-> {arg}]
    /\ steps' = steps + 1
    /\ UNCHANGED <<mSession, sessionFiles, mSaveSessionTimer, batch, mWatcher, objectTypes,
                   mObjectTypesFileLastSaved, disk, currentDocument, today, external>>

setPluginEnabled(fileName, enabled) ==
    LET states == setPluginState(pluginStates, fileName,
                                 IF enabled THEN "PluginEnabled" ELSE "PluginDisabled")
        disabledPlugins == PluginsInState(states, "PluginDisabled")
        enabledPlugins == PluginsInState(states, "PluginEnabled")
    IN PluginCall("setPluginEnabled", <<fileName, enabled>>,
                  setValue(setValue(settings, "Plugins/Disabled", disabledPlugins),
                           "Plugins/Enabled", enabledPlugins),
                  states)

\* The plugin manager finds a plugin to be static, or one to be neither
PluginFound(fileName, state) ==
    /\ pluginStates[fileName] # state
    /\ PluginCall("plugin found", <<fileName, state>>, settings,
                  setPluginState(pluginStates, fileName, state))

\* Lists as a settings file may hold them: overlapping, repeating
StoredPluginLists ==
    { <<>>, <<"libjson.so">>, <<"libtmx.so", "libjson.so">>,
      <<"libpython.so", "libpython.so">> }

InitPlugins ==
    \E disabledPlugins \in StoredPluginLists, enabledPlugins \in StoredPluginLists :
        Constructed([NoSettings EXCEPT !["Plugins/Disabled"] = {disabledPlugins},
                                       !["Plugins/Enabled"] = {enabledPlugins}],
                    NoSessionFiles, NoDisk, FirstDay, TRUE)

NextPlugins ==
    /\ steps < MaxPluginSteps
    /\ \/ Preferences(TRUE)
       \/ \E f \in PluginFiles, enabled \in BOOLEAN : setPluginEnabled(f, enabled)
       \/ \E f \in PluginFiles, state \in {"PluginStatic", "PluginDefault"} :
              PluginFound(f, state)

SpecPlugins == InitPlugins /\ [][NextPlugins]_vars

-----------------------------------------------------------------------------
(* The last path of a file chooser *)

FileType ==
    { "ExportedFile", "ExternalTileset", "ImageFile", "ObjectTemplateFile",
      "ObjectTypesFile", "ProjectFile", "WorldFile" }

\* A slip: all file types share one key.
lastPathKey_Shared(fileType) == "LastPaths/ExportedFile"

lastPathKey(fileType) ==
    CASE fileType = "ExportedFile" -> "LastPaths/ExportedFile"
      [] fileType = "ExternalTileset" -> "LastPaths/ExternalTileset"
      [] fileType = "ImageFile" -> "LastPaths/Images"
      [] fileType = "ObjectTemplateFile" -> "LastPaths/ObjectTemplates"
      [] fileType = "ObjectTypesFile" -> "LastPaths/ObjectTypes"
      [] fileType = "ProjectFile" -> "LastPaths/Project"
      [] fileType = "WorldFile" -> "LastPaths/WorldFile"

\* The file names of documents: a new document has none yet
DocumentFileNames == {"", "/maps/a.tmx", "/work/b.tmx"}

\* QFileInfo(fileName).path()
QFileInfoPath(fileName) ==
    CASE fileName = "" -> ""
      [] fileName = "/maps/a.tmx" -> "/maps"
      [] fileName = "/work/b.tmx" -> "/work"

\* QStandardPaths::writableLocation(QStandardPaths::DocumentsLocation)
DocumentsLocation == "/home/user/Documents"

lastPath(s, fileType, document) ==
    LET path == get(s, lastPathKey(fileType), "")
        path1 == IF path = "" /\ document # {}
                 THEN QFileInfoPath(CHOOSE fileName \in document : TRUE)
                 ELSE path
    IN IF path1 = "" THEN DocumentsLocation ELSE path1

setLastPath(fileType, path) ==
    IF path = ""
    THEN Call("setLastPath", <<fileType, path>>, settings, <<>>, external)
    ELSE Call("setLastPath", <<fileType, path>>,
              setValue(settings, lastPathKey(fileType), path), <<>>, external)

\* The user selects another document, or closes the last one
DocumentSelected(document) ==
    /\ currentDocument # document
    /\ currentDocument' = document
    /\ lastOp' = [op |-> "document selected", arg |-> document]
    /\ emitted' = <<>>
    /\ steps' = steps + 1
    /\ UNCHANGED <<settings, mSession, sessionFiles, mSaveSessionTimer, batch, pluginStates,
                   mWatcher, objectTypes, mObjectTypesFileLastSaved, disk, today, external>>

ChooserPaths == {"", "/maps", "/tiles"}

InitLastPath == Constructed(NoSettings, NoSessionFiles, NoDisk, FirstDay, TRUE)

NextLastPath ==
    /\ steps < MaxLastPathSteps
    /\ \/ Preferences(TRUE)
       \/ \E fileType \in FileType, path \in ChooserPaths : setLastPath(fileType, path)
       \/ \E document \in {{}} \cup {{f} : f \in DocumentFileNames} :
              DocumentSelected(document)

SpecLastPath == InitLastPath /\ [][NextLastPath]_vars

-----------------------------------------------------------------------------
(* Recent projects *)

recentProjects(s) == get(s, "Project/RecentProjects", <<>>)

addRecentProject(fileName) ==
    LET s1 == IF fileName = "" THEN settings
              ELSE setValue(settings, lastPathKey("ProjectFile"), fileName)
        files == addToRecentFileList(fileName, get(s1, "Project/RecentProjects", <<>>))
        s2 == setValue(s1, "Project/RecentProjects", files)
    IN Call("addRecentProject", fileName, s2,
            <<Emit("recentProjectsChanged", s2, "Project/RecentProjects")>>, external)

clearRecentProjects ==
    LET s1 == remove(settings, "Project/RecentProjects")
    IN Call("clearRecentProjects", "", s1,
            <<Emit("recentProjectsChanged", s1, "Project/RecentProjects")>>, external)

InitRecentProjects == Constructed(NoSettings, NoSessionFiles, NoDisk, FirstDay, TRUE)

NextRecentProjects ==
    /\ steps < MaxRecentProjectCalls
    /\ \/ Preferences(TRUE)
       \/ \E fileName \in FileNames : addRecentProject(fileName)
       \/ clearRecentProjects

SpecRecentProjects == InitRecentProjects /\ [][NextRecentProjects]_vars

-----------------------------------------------------------------------------
(* The donation dialog *)

\* A slip: the dialog waits for one more run.
shouldShowDonationDialog_OneMoreRun(s, date) ==
    IF isPatron(s) THEN FALSE
    ELSE IF runCount(s) <= 7 THEN FALSE
    ELSE LET dialogTime == donationDialogTime(s)
         IN IF ~IsValidDate(dialogTime) THEN FALSE
            ELSE DaysTo(dialogTime, date) >= 0

\* date is QDate::currentDate()
shouldShowDonationDialog(s, date) ==
    IF isPatron(s) THEN FALSE
    ELSE IF runCount(s) < 7 THEN FALSE
    ELSE LET dialogTime == donationDialogTime(s)
         IN IF ~IsValidDate(dialogTime) THEN FALSE
            ELSE DaysTo(dialogTime, date) >= 0

setDonationDialogReminder(date) ==
    LET s1 == IF IsValidDate(date) THEN setValue(settings, "Install/IsPatron", FALSE)
              ELSE settings
        sigs == IF IsValidDate(date) THEN <<Emit("isPatronChanged", s1, "Install/IsPatron")>>
                ELSE <<>>
    IN Call("setDonationDialogReminder", date,
            setValue(s1, "Install/DonationDialogTime", ToISODate(date)), sigs, external)

\* Midnight: QDate::currentDate() is the next day
DayPasses ==
    /\ IsValidDate(AddDays(today, 1))
    /\ today' = AddDays(today, 1)
    /\ lastOp' = [op |-> "day passes", arg |-> {today}]
    /\ emitted' = <<>>
    /\ steps' = steps + 1
    /\ UNCHANGED <<settings, mSession, sessionFiles, mSaveSessionTimer, batch, pluginStates,
                   mWatcher, objectTypes, mObjectTypesFileLastSaved, disk, currentDocument,
                   external>>

NewYear == [y |-> 2024, m |-> 1, d |-> 1]

ReminderDates == {InvalidDate, FirstDay, NewYear}

\* What earlier runs, of this or an older version, may have left
InstallSettings ==
    { [NoSettings EXCEPT !["Install/RunCount"] = count,
                         !["Install/IsPatron"] = patron,
                         !["Install/FirstRun"] = first,
                         !["Install/DonationDialogTime"] = time,
                         !["Install/PatreonDialogTime"] = patreon] :
        count \in {{}, {5}, {6}, {9}},
        patron \in {{}, {TRUE}},
        first \in {{}, {<<2023, 11, 15>>}, {<<2023, 12, 29>>}},
        time \in {{}, {<<>>}, {<<2023, 12, 31>>}},
        patreon \in {{}, {<<2024, 1, 1>>}} }

InitDonation ==
    \E s \in InstallSettings : Constructed(s, NoSessionFiles, NoDisk, FirstDay, TRUE)

NextDonation ==
    /\ steps < MaxDonationSteps
    /\ \/ Preferences(TRUE)
       \/ \E v \in BOOLEAN : setPatron(v)
       \/ \E date \in ReminderDates : setDonationDialogReminder(date)
       \/ DayPasses

SpecDonation == InitDonation /\ [][NextDonation]_vars

-----------------------------------------------------------------------------
(* Usage information over the starts of the application *)

\* Between two runs the settings file is changed from outside: an older
\* version of the application ran, or the user edited or removed a key
InstallEdits ==
    ({"Install/FirstRun"} \X {{}, {<<>>}, {<<2023, 11, 30>>}, {<<2023, 12, 29>>},
                              {<<2024, 1, 15>>}})
    \cup ({"Install/DonationDialogTime"} \X {{}, {<<2023, 12, 31>>}})
    \cup ({"Install/PatreonDialogTime"} \X {{<<2024, 1, 1>>}, {<<>>}})
    \cup ({"Install/RunCount"} \X {{}})

SettingsEdited(key, value) ==
    /\ settings[key] # value
    /\ settings' = [settings EXCEPT ![key] = value]
    /\ lastOp' = [op |-> "settings edited", arg |-> {key}]
    /\ emitted' = <<>>
    /\ steps' = steps + 1
    /\ UNCHANGED <<mSession, sessionFiles, mSaveSessionTimer, batch, pluginStates, mWatcher,
                   objectTypes, mObjectTypesFileLastSaved, disk, currentDocument, today,
                   external>>

InitUsage == Constructed(NoSettings, NoSessionFiles, NoDisk, FirstDay, TRUE)

NextUsage ==
    /\ steps < MaxUsageSteps
    /\ \/ Preferences(TRUE)
       \/ \E edit \in InstallEdits : SettingsEdited(edit[1], edit[2])
       \/ DayPasses

SpecUsage == InitUsage /\ [][NextUsage]_vars

-----------------------------------------------------------------------------
(* Starts of the application, with runs of an older version in between that *)
(* write the legacy keys again                                              *)

NextLegacy ==
    /\ steps < MaxLegacySteps
    /\ \/ \E saveOk \in BOOLEAN : Preferences(saveOk)
       \/ \E name \in SessionFileNames \cup {""} :
              switchSession(LoadSession(name, sessionFiles))
       \/ SettingsEdited("recentFiles/fileNames", {LegacyRecentFiles.fileNames})
       \/ SettingsEdited("recentFiles", {"1"})
       \/ SettingsEdited("MapEditor/MapStates", {LegacyMapStates})
       \/ \E f \in {"/maps/b.tmx"} : addRecentFile(f)
       \/ \E saveOk \in BOOLEAN : saveSessionNow(saveOk)

SpecLegacy == InitStartup /\ [][NextLegacy]_vars

-----------------------------------------------------------------------------
(* The preferences dialog: any setter, with any value, in any order *)

InitPrefs ==
    \E legacy \in {{}, {TRUE}, {FALSE}} :
        Constructed([NoSettings EXCEPT !["SafeSavingEnabled"] = legacy],
                    NoSessionFiles, NoDisk, FirstDay, TRUE)

NextPrefs ==
    /\ steps < MaxPrefCalls
    /\ \/ \E v \in ObjectLabelVisiblity : setObjectLabelVisibility(v)
       \/ \E v \in BOOLEAN : setLabelForHoveredObject(v)
       \/ \E v \in ApplicationStyle : setApplicationStyle(v)
       \/ \E c \in Colors : setBaseColor(c)
       \/ \E c \in Colors : setSelectionColor(c)
       \/ \E v \in BOOLEAN : setShowGrid(v)
       \/ \E v \in BOOLEAN : setShowTileObjectOutlines(v)
       \/ \E v \in BOOLEAN : setShowTileAnimations(v)
       \/ \E v \in BOOLEAN : setShowTileCollisionShapes(v)
       \/ \E v \in BOOLEAN : setShowObjectReferences(v)
       \/ \E v \in BOOLEAN : setSnapToGrid(v)
       \/ \E v \in BOOLEAN : setSnapToFineGrid(v)
       \/ \E v \in BOOLEAN : setSnapToPixels(v)
       \/ \E c \in Colors : setGridColor(c)
       \/ \E v \in {1, 4} : setGridFine(v)
       \/ \E v \in {1, 2} : setObjectLineWidth(v)
       \/ \E v \in BOOLEAN : setHighlightCurrentLayer(v)
       \/ \E v \in BOOLEAN : setHighlightHoveredObject(v)
       \/ \E v \in BOOLEAN : setShowTilesetGrid(v)
       \/ \E v \in LayerDataFormat : setLayerDataFormat(v)
       \/ \E v \in RenderOrder : setMapRenderOrder(v)
       \/ \E v \in BOOLEAN : setSafeSavingEnabled(v)
       \/ \E v \in BOOLEAN : setExportOnSave(v)
       \/ \E o \in ExportOption, v \in BOOLEAN : setExportOption(o, v)
       \/ \E v \in Languages : setLanguage(v)
       \/ \E v \in BOOLEAN : setReloadTilesetsOnChanged(v)
       \/ \E v \in BOOLEAN : setUseOpenGL(v)
       \/ \E v \in BOOLEAN : setPatron(v)
       \/ \E v \in BOOLEAN : setCheckForUpdates(v)
       \/ \E v \in BOOLEAN : setDisplayNews(v)
       \/ \E v \in BOOLEAN : setRestoreSessionOnStartup(v)
       \/ \E v \in BOOLEAN : setWheelZoomsByDefault(v)

SpecPrefs == InitPrefs /\ [][NextPrefs]_vars

-----------------------------------------------------------------------------
(* What the last call was, for the statements about a single call *)

Called(op) == lastOp.op = op

Arg == CHOOSE a \in lastOp.arg : TRUE

\* C2: read-after-write through the facade: after a setter was called with
\* value v, the setting's getter returns v, whatever the store held before.
C2_ReadAfterWrite ==
    /\ Called("setObjectLabelVisibility") => objectLabelVisibility(settings) = Arg
    /\ Called("setLabelForHoveredObject") => labelForHoveredObject(settings) = Arg
    /\ Called("setApplicationStyle") => applicationStyle(settings) = Arg
    /\ Called("setShowGrid") => showGrid(settings) = Arg
    /\ Called("setShowTileObjectOutlines") => showTileObjectOutlines(settings) = Arg
    /\ Called("setShowTileAnimations") => showTileAnimations(settings) = Arg
    /\ Called("setShowTileCollisionShapes") => showTileCollisionShapes(settings) = Arg
    /\ Called("setShowObjectReferences") => showObjectReferences(settings) = Arg
    /\ Called("setSnapToGrid") => snapToGrid(settings) = Arg
    /\ Called("setSnapToFineGrid") => snapToFineGrid(settings) = Arg
    /\ Called("setSnapToPixels") => snapToPixels(settings) = Arg
    /\ Called("setGridFine") => gridFine(settings) = Arg
    /\ Called("setObjectLineWidth") => objectLineWidth(settings) = Arg
    /\ Called("setHighlightCurrentLayer") => highlightCurrentLayer(settings) = Arg
    /\ Called("setHighlightHoveredObject") => highlightHoveredObject(settings) = Arg
    /\ Called("setShowTilesetGrid") => showTilesetGrid(settings) = Arg
    /\ Called("setLayerDataFormat") => layerDataFormat(settings) = Arg
    /\ Called("setMapRenderOrder") => mapRenderOrder(settings) = Arg
    /\ Called("setSafeSavingEnabled") => safeSavingEnabled(settings) = Arg
    /\ Called("setExportOnSave") => exportOnSave(settings) = Arg
    /\ Called("setExportOption") => exportOption(settings, Arg[1]) = Arg[2]
    /\ Called("setLanguage") => language(settings) = Arg
    /\ Called("setReloadTilesetsOnChanged") => reloadTilesetsOnChange(settings) = Arg
    /\ Called("setUseOpenGL") => useOpenGL(settings) = Arg
    /\ Called("setPatron") => isPatron(settings) = Arg
    /\ Called("setCheckForUpdates") => checkForUpdates(settings) = Arg
    /\ Called("setDisplayNews") => displayNews(settings) = Arg
    /\ Called("setRestoreSessionOnStartup") => restoreSessionOnStartup(settings) = Arg
    /\ Called("setWheelZoomsByDefault") => wheelZoomsByDefault(settings) = Arg

-----------------------------------------------------------------------------
(* Notifications.  The tables say, per setter, the key it is to write, the  *)
(* value it is to store for its argument and the signal of its setting.     *)

NotifyingSetters ==
    { "setObjectLabelVisibility", "setLabelForHoveredObject", "setApplicationStyle",
      "setBaseColor", "setSelectionColor", "setShowGrid", "setShowTileObjectOutlines",
      "setShowTileAnimations", "setShowTileCollisionShapes", "setShowObjectReferences",
      "setSnapToGrid", "setSnapToFineGrid", "setSnapToPixels", "setGridColor",
      "setGridFine", "setObjectLineWidth", "setHighlightCurrentLayer",
      "setHighlightHoveredObject", "setShowTilesetGrid", "setLanguage", "setUseOpenGL",
      "setPatron", "setCheckForUpdates", "setDisplayNews" }

SilentSetters ==
    { "setLayerDataFormat", "setMapRenderOrder", "setSafeSavingEnabled",
      "setExportOnSave", "setExportOption", "setReloadTilesetsOnChanged",
      "setRestoreSessionOnStartup", "setWheelZoomsByDefault" }

KeyWritten ==
    CASE Called("setObjectLabelVisibility") -> "Interface/ObjectLabelVisibility"
      [] Called("setLabelForHoveredObject") -> "Interface/LabelForHoveredObject"
      [] Called("setApplicationStyle") -> "Interface/ApplicationStyle"
      [] Called("setBaseColor") -> "Interface/BaseColor"
      [] Called("setSelectionColor") -> "Interface/SelectionColor"
      [] Called("setShowGrid") -> "Interface/ShowGrid"
      [] Called("setShowTileObjectOutlines") -> "Interface/ShowTileObjectOutlines"
      [] Called("setShowTileAnimations") -> "Interface/ShowTileAnimations"
      [] Called("setShowTileCollisionShapes") -> "Interface/ShowTileCollisionShapes"
      [] Called("setShowObjectReferences") -> "Interface/ShowObjectReferences"
      [] Called("setSnapToGrid") -> "Interface/SnapToGrid"
      [] Called("setSnapToFineGrid") -> "Interface/SnapToFineGrid"
      [] Called("setSnapToPixels") -> "Interface/SnapToPixels"
      [] Called("setGridColor") -> "Interface/GridColor"
      [] Called("setGridFine") -> "Interface/GridFine"
      [] Called("setObjectLineWidth") -> "Interface/ObjectLineWidth"
      [] Called("setHighlightCurrentLayer") -> "Interface/HighlightCurrentLayer"
      [] Called("setHighlightHoveredObject") -> "Interface/HighlightHoveredObject"
      [] Called("setShowTilesetGrid") -> "Interface/ShowTilesetGrid"
      [] Called("setLanguage") -> "Interface/Language"
      [] Called("setUseOpenGL") -> "Interface/OpenGL"
      [] Called("setPatron") -> "Install/IsPatron"
      [] Called("setCheckForUpdates") -> "Install/CheckForUpdates"
      [] Called("setDisplayNews") -> "Install/DisplayNews"
      [] Called("setLayerDataFormat") -> "Storage/LayerDataFormat"
      [] Called("setMapRenderOrder") -> "Storage/MapRenderOrder"
      [] Called("setSafeSavingEnabled") -> "Storage/SafeSavingEnabled"
      [] Called("setExportOnSave") -> "Storage/ExportOnSave"
      [] Called("setExportOption") -> ExportOptionKey(Arg[1])
      [] Called("setReloadTilesetsOnChanged") -> "Storage/ReloadTilesets"
      [] Called("setRestoreSessionOnStartup") -> "Startup/RestorePreviousSession"
      [] Called("setWheelZoomsByDefault") -> "Interface/WheelZoomsByDefault"

ValueWritten ==
    CASE lastOp.op \in {"setBaseColor", "setSelectionColor", "setGridColor"} -> Arg.rgb
      [] Called("setExportOption") -> Arg[2]
      [] OTHER -> Arg

SignalOfSetting ==
    CASE Called("setObjectLabelVisibility") -> "objectLabelVisibilityChanged"
      [] Called("setLabelForHoveredObject") -> "labelForHoveredObjectChanged"
      [] Called("setApplicationStyle") -> "applicationStyleChanged"
      [] Called("setBaseColor") -> "baseColorChanged"
      [] Called("setSelectionColor") -> "selectionColorChanged"
      [] Called("setShowGrid") -> "showGridChanged"
      [] Called("setShowTileObjectOutlines") -> "showTileObjectOutlinesChanged"
      [] Called("setShowTileAnimations") -> "showTileAnimationsChanged"
      [] Called("setShowTileCollisionShapes") -> "showTileCollisionShapesChanged"
      [] Called("setShowObjectReferences") -> "showObjectReferencesChanged"
      [] Called("setSnapToGrid") -> "snapToGridChanged"
      [] Called("setSnapToFineGrid") -> "snapToFineGridChanged"
      [] Called("setSnapToPixels") -> "snapToPixelsChanged"
      [] Called("setGridColor") -> "gridColorChanged"
      [] Called("setGridFine") -> "gridFineChanged"
      [] Called("setObjectLineWidth") -> "objectLineWidthChanged"
      [] Called("setHighlightCurrentLayer") -> "highlightCurrentLayerChanged"
      [] Called("setHighlightHoveredObject") -> "highlightHoveredObjectChanged"
      [] Called("setShowTilesetGrid") -> "showTilesetGridChanged"
      [] Called("setLanguage") -> "languageChanged"
      [] Called("setUseOpenGL") -> "useOpenGLChanged"
      [] Called("setPatron") -> "isPatronChanged"
      [] Called("setCheckForUpdates") -> "checkForUpdatesChanged"
      [] Called("setDisplayNews") -> "displayNewsChanged"
      [] OTHER -> "no signal"

\* The key has been written, and exactly one signal, the setting's, was
\* emitted after that.
NotifiedOnce ==
    /\ settings[KeyWritten] = {ValueWritten}
    /\ Len(emitted) = 1
    /\ emitted[1].signal = SignalOfSetting
    /\ emitted[1].stored = {ValueWritten}

\* C3 as stated: every setter that writes a settings key emits exactly one
\* change notification for its setting, after the key has been written.
C3_EverySetterNotifies ==
    lastOp.op \in NotifyingSetters \cup SilentSetters => NotifiedOnce

\* C3, amended: the setters of NotifyingSetters emit exactly one notification
\* for their setting, after the key has been written; the setters of
\* SilentSetters write their key and emit no notification at all.
C3_NotifyingSettersNotifyOnce ==
    /\ lastOp.op \in NotifyingSetters => NotifiedOnce
    /\ lastOp.op \in SilentSetters =>
           /\ settings[KeyWritten] = {ValueWritten}
           /\ emitted = <<>>

\* A notifying setter has overwritten an earlier value of its key.
C3_Witness ==
    /\ Called("setShowGrid") /\ Arg = FALSE /\ steps = 2
    /\ emitted = <<[signal |-> "showGridChanged", stored |-> {FALSE}]>>

-----------------------------------------------------------------------------
(* The debounced session save *)

Pending == mSaveSessionTimer.active

\* A step in which saveSession() is called
RequestStep ==
    /\ lastOp'.op \in {"saveSession", "addRecentFile", "clearRecentFiles"}
    /\ steps' # steps

\* C1: session saves are debounced.  The requests made from an idle timer
\* until it fires get exactly one write, made when the timer fires (or by an
\* explicit saveSessionNow, which stops the timer); a request made while the
\* timer is pending leaves the timer as it is; every request is eventually
\* followed by a write.
C1_Debounced ==
    /\ [](Pending => batch.requests >= 1 /\ batch.writes = 0)
    /\ [](~Pending /\ batch.requests >= 1 => batch.writes = 1)
    /\ [][RequestStep /\ Pending => mSaveSessionTimer' = mSaveSessionTimer]_vars
    /\ [][RequestStep /\ ~Pending =>
              mSaveSessionTimer' = [active |-> TRUE, left |-> SaveInterval]]_vars
    /\ [][Pending /\ lastOp'.op = "timeout" =>
              /\ mSaveSessionTimer.left = 0
              /\ ~mSaveSessionTimer'.active
              /\ batch'.writes = 1
              /\ batch'.requests = batch.requests]_vars
    /\ [][batch'.writes > batch.writes => lastOp'.op \in {"timeout", "saveSessionNow"}]_vars
    /\ (Pending ~> (~Pending /\ batch.writes = 1))

\* Three requests were coalesced and written once, by the timer.
C1_Witness ==
    /\ lastOp.op = "timeout"
    /\ batch = [requests |-> 3, writes |-> 1]
    /\ ~Pending
    /\ sessionFiles[DefaultFileName] = {mSession}
    /\ mSession.recentFiles # <<>>

-----------------------------------------------------------------------------
(* The migration of the legacy keys *)

LegacyKeys == {"recentFiles", "MapEditor/MapStates"} \cup ChildKeys("recentFiles")

LegacyPresent(s) == \E k \in LegacyKeys : s[k] # {}

\* What the store holds under a key, or a default
Stored(key, default) ==
    IF settings[key] = {} THEN default ELSE CHOOSE v \in settings[key] : TRUE

\* A step that is a start of the application
StartupStep == lastOp'.op = "Preferences" /\ steps' # steps

SaveSucceeded == lastOp'.arg = {TRUE}

\* The session the new process opens is the default one
OpensDefault ==
    \/ settings["Startup/RestorePreviousSession"] = {FALSE}
    \/ settings["Project/LastSession"] \in {{}, {""}, {DefaultFileName}}

\* What the session file of the session to open holds
OnFile ==
    LoadSession(IF OpensDefault THEN DefaultFileName
                ELSE CHOOSE name \in settings["Project/LastSession"] : TRUE,
                sessionFiles)

\* C4 as stated: after a start in which the migration ran, the legacy keys
\* are gone.
C4_MigrationRunsOnce ==
    [][StartupStep /\ OpensDefault /\ LegacyPresent(settings)
           => ~LegacyPresent(settings')]_vars

\* C4, amended: a start copies the values of the keys below recentFiles into
\* the session only when it opens the default session and the store holds a
\* setting named recentFiles itself, and the map states only when it opens
\* the default session and their key is present; when the session is then
\* saved successfully the legacy keys are gone, copied or not, and keys that
\* are gone never come back, so no later start migrates again or puts
\* legacy values over the session's; when saving fails the legacy keys stay
\* as they are and the next start with the default session migrates again.
C4_MigrationRunsOnceSaved ==
    /\ [][StartupStep /\ OpensDefault /\ LegacyPresent(settings) /\ SaveSucceeded
              => ~LegacyPresent(settings')]_vars
    /\ [][StartupStep /\ OpensDefault /\ LegacyPresent(settings) /\ ~SaveSucceeded
              => \A k \in LegacyKeys : settings'[k] = settings[k]]_vars
    /\ [][StartupStep /\ OpensDefault /\ settings["recentFiles"] # {}
              => /\ mSession'.recentFiles = Stored("recentFiles/fileNames", <<>>)
                 /\ mSession'.openFiles = Stored("recentFiles/lastOpenFiles", <<>>)
                 /\ mSession'.activeFile = Stored("recentFiles/lastActive", "")]_vars
    /\ [][StartupStep /\ ~(OpensDefault /\ settings["recentFiles"] # {})
              => /\ mSession'.recentFiles = OnFile.recentFiles
                 /\ mSession'.openFiles = OnFile.openFiles
                 /\ mSession'.activeFile = OnFile.activeFile]_vars
    /\ [][StartupStep /\ ~(OpensDefault /\ settings["MapEditor/MapStates"] # {})
              => mSession'.fileStates = OnFile.fileStates]_vars
    /\ [][~LegacyPresent(settings) => ~LegacyPresent(settings')]_vars

\* A start after the migration: the legacy keys are gone and the session
\* holds what the user did since, not the legacy list.
C4_Witness ==
    /\ lastOp.op = "Preferences"
    /\ steps = 3
    /\ ~LegacyPresent(settings)
    /\ mSession.recentFiles = <<"/maps/b.tmx", "/maps/a.tmx", "/maps/c.tmx">>
    /\ mSession.fileStates["/maps/a.tmx"] # {}

-----------------------------------------------------------------------------
(* Switching sessions *)

SwitchStep == lastOp'.op = "switchSession" /\ steps' # steps

\* C9: switchSession(s) makes s the current session, stores its file name
\* under Project/LastSession and emits recentFilesChanged; nothing else
\* changes the stored last session; and a start opens the stored last
\* session when restoring is on (the default) and a non-empty last session
\* is stored, and the default session otherwise.
C9_SwitchSession ==
    /\ [][SwitchStep =>
              \E name \in SessionFileNames \cup {""} :
                  /\ mSession' = LoadSession(name, sessionFiles)
                  /\ settings'["Project/LastSession"] = {name}
                  /\ \E i \in 1..Len(emitted') : emitted'[i].signal = "recentFilesChanged"
                  /\ \A k \in Keys \ {"Project/LastSession"} : settings'[k] = settings[k]]_vars
    /\ [][~SwitchStep =>
              settings'["Project/LastSession"] = settings["Project/LastSession"]]_vars
    /\ [][StartupStep =>
              mSession'.fileName =
                  IF /\ settings["Startup/RestorePreviousSession"] \in {{}, {TRUE}}
                     /\ settings["Project/LastSession"] \notin {{}, {""}}
                  THEN CHOOSE name \in settings["Project/LastSession"] : TRUE
                  ELSE DefaultFileName]_vars

\* A start that opens the project's session, switched to before.
C9_Witness ==
    /\ lastOp.op = "Preferences"
    /\ steps >= 2
    /\ mSession.fileName = ProjectSession
    /\ settings["Project/LastSession"] = {ProjectSession}

-----------------------------------------------------------------------------
(* Object types *)

\* The current object types file, from the store as it is
CurrentFile ==
    IF settings["Storage/ObjectTypesFile"] \in {{}, {""}} THEN DefaultObjectTypesFile
    ELSE CHOOSE f \in settings["Storage/ObjectTypesFile"] : TRUE

Readable(path) == disk[path].content # {}

Content(path) == CHOOSE types \in disk[path].content : TRUE

LegacyNames ==
    IF settings["ObjectTypes"] = {} THEN <<>>
    ELSE (CHOOSE l \in settings["ObjectTypes"] : TRUE).Names

LegacyColors ==
    IF settings["ObjectTypes"] = {} THEN <<>>
    ELSE (CHOOSE l \in settings["ObjectTypes"] : TRUE).Colors

\* C5: a start takes the object types from the file when it can be read,
\* and then removes the legacy group; otherwise it pairs up the legacy
\* names and colours, as many as both lists have, and leaves the group;
\* with no legacy names the object types are empty.
C5_StartupObjectTypes ==
    [][StartupStep =>
          IF Readable(CurrentFile)
          THEN /\ objectTypes' = Content(CurrentFile)
               /\ settings'["ObjectTypes"] = {}
          ELSE /\ settings'["ObjectTypes"] = settings["ObjectTypes"]
               /\ LegacyNames = <<>> => objectTypes' = <<>>
               /\ LegacyNames # <<>> =>
                      /\ Len(objectTypes') <= Len(LegacyNames)
                      /\ Len(objectTypes') <= Len(LegacyColors)
                      /\ Len(objectTypes') \in {Len(LegacyNames), Len(LegacyColors)}
                      /\ \A i \in 1..Len(objectTypes') :
                             /\ objectTypes'[i].name = LegacyNames[i]
                             /\ objectTypes'[i].color = QColorFromString(LegacyColors[i])]_vars

\* A start with an unreadable file and two legacy names but one colour.
C5_Witness ==
    /\ lastOp.op = "Preferences"
    /\ steps >= 1
    /\ ~Readable(CurrentFile)
    /\ LegacyNames = <<"Enemy", "Door">>
    /\ objectTypes = <<ObjectType("Enemy", Red)>>

ChangedOnDiskStep == lastOp'.op = "objectTypesFileChangedOnDisk" /\ steps' # steps

\* C6: on a file-changed notification the object types are replaced by the
\* file's, with exactly one objectTypesChanged, if and only if the file's
\* time differs from the recorded one and the file can be read; otherwise
\* they are left alone and nothing is emitted.
C6_ReloadOnChange ==
    [][ChangedOnDiskStep =>
          IF disk[CurrentFile].mtime # mObjectTypesFileLastSaved /\ Readable(CurrentFile)
          THEN /\ objectTypes' = Content(CurrentFile)
               /\ Len(emitted') = 1
               /\ emitted'[1].signal = "objectTypesChanged"
          ELSE /\ objectTypes' = objectTypes
               /\ emitted' = <<>>]_vars

\* The notification for the application's own write was skipped.
C6_Witness ==
    /\ lastOp.op = "objectTypesFileChangedOnDisk"
    /\ disk[CurrentFile] = EveningFile
    /\ mObjectTypesFileLastSaved = 2
    /\ objectTypes = TypesA
    /\ emitted = <<>>

\* C7 as stated: the watcher watches the current object types file and no
\* other path.
C7_WatchesCurrentFile == mWatcher = {CurrentFile}

SetFileStep == lastOp'.op = "setObjectTypesFile" /\ steps' # steps

\* C7, amended: the watcher watches no path other than the current object
\* types file; after a start it watches that file only if the file was read
\* successfully, and nothing otherwise; after setObjectTypesFile(f) with
\* another path than the current one it watches f if f exists and nothing
\* otherwise; setObjectTypesFile with the current path changes nothing.
C7_WatchesNoOtherFile ==
    /\ [](mWatcher \subseteq {CurrentFile})
    /\ [][StartupStep =>
              mWatcher' = IF Readable(CurrentFile) THEN {CurrentFile} ELSE {}]_vars
    /\ [][SetFileStep /\ lastOp'.arg = {CurrentFile} =>
              /\ settings' = settings
              /\ mWatcher' = mWatcher]_vars
    /\ [][SetFileStep /\ lastOp'.arg # {CurrentFile} =>
              /\ settings'["Storage/ObjectTypesFile"] = lastOp'.arg
              /\ \A f \in ObjectTypesPaths :
                     f \in mWatcher' <=> lastOp'.arg = {f} /\ disk[f] # NoFile]_vars

\* The watcher follows the file from the default path to the project's.
C7_Witness ==
    /\ lastOp.op = "setObjectTypesFile"
    /\ lastOp.arg = {ProjectObjectTypesFile}
    /\ mWatcher = {ProjectObjectTypesFile}
    /\ disk[DefaultObjectTypesFile] # NoFile
    /\ steps = 1

-----------------------------------------------------------------------------
(* Plugins *)

StoredList(key) == IF settings[key] = {} THEN <<>> ELSE CHOOSE l \in settings[key] : TRUE

Listed(key) == {StoredList(key)[i] : i \in 1..Len(StoredList(key))}

InPluginState(states, state) == {f \in PluginFiles : states[f] = state}

\* C8: after setPluginEnabled(fileName, enabled) the list Plugins/Enabled
\* holds exactly the files in state PluginEnabled and Plugins/Disabled
\* exactly those in state PluginDisabled, each once; the lists are disjoint,
\* fileName is in the list matching enabled and not in the other, files in
\* state PluginDefault or PluginStatic are in neither, and applying the
\* lists as a start does gives the same enabled and disabled files.
C8_PluginLists ==
    Called("setPluginEnabled") =>
        LET fileName == Arg[1]
            enabled == Arg[2]
            restarted == ApplyPluginLists(NoPluginStates, StoredList("Plugins/Disabled"),
                                          StoredList("Plugins/Enabled"))
        IN /\ Listed("Plugins/Enabled") = InPluginState(pluginStates, "PluginEnabled")
           /\ Listed("Plugins/Disabled") = InPluginState(pluginStates, "PluginDisabled")
           /\ Len(StoredList("Plugins/Enabled")) = Cardinality(Listed("Plugins/Enabled"))
           /\ Len(StoredList("Plugins/Disabled")) = Cardinality(Listed("Plugins/Disabled"))
           /\ Listed("Plugins/Enabled") \cap Listed("Plugins/Disabled") = {}
           /\ fileName \in Listed(IF enabled THEN "Plugins/Enabled" ELSE "Plugins/Disabled")
           /\ fileName \notin Listed(IF enabled THEN "Plugins/Disabled" ELSE "Plugins/Enabled")
           /\ \A f \in PluginFiles :
                  pluginStates[f] \in {"PluginDefault", "PluginStatic"} =>
                      f \notin Listed("Plugins/Enabled") \cup Listed("Plugins/Disabled")
           /\ InPluginState(restarted, "PluginEnabled")
                  = InPluginState(pluginStates, "PluginEnabled")
           /\ InPluginState(restarted, "PluginDisabled")
                  = InPluginState(pluginStates, "PluginDisabled")

\* A plugin is disabled while one is enabled and one is static.
C8_Witness ==
    /\ Called("setPluginEnabled")
    /\ Arg = <<"libjson.so", FALSE>>
    /\ pluginStates["libtmx.so"] = "PluginEnabled"
    /\ pluginStates["libpython.so"] = "PluginStatic"
    /\ settings["Plugins/Disabled"] = {<<"libjson.so">>}

-----------------------------------------------------------------------------
(* Last paths *)

SetLastPathStep == lastOp'.op = "setLastPath" /\ steps' # steps

NewArg == CHOOSE a \in lastOp'.arg : TRUE

\* What lastPath falls back on according to the claim as stated
DocumentDirectory ==
    IF currentDocument = {} THEN DocumentsLocation
    ELSE QFileInfoPath(CHOOSE fileName \in currentDocument : TRUE)

\* C10 as stated: without a last path for the file type, lastPath returns
\* the directory of the current document, and the Documents folder when no
\* document is open.
C10_LastPath ==
    \A fileType \in FileType :
        ~contains(settings, lastPathKey(fileType)) =>
            lastPath(settings, fileType, currentDocument) = DocumentDirectory

\* What lastPath falls back on
Fallback ==
    IF currentDocument = {} \/ currentDocument = {""} THEN DocumentsLocation
    ELSE QFileInfoPath(CHOOSE fileName \in currentDocument : TRUE)

\* C10, amended: after setLastPath(fileType, path) with a path that is not
\* empty lastPath(fileType) is path, and stays so whatever else happens
\* but such a call for the same file type; the last paths of the other file
\* types are as before; setLastPath with an empty path changes nothing.
\* Without a last path for the file type, lastPath returns the directory of
\* the current document if that document has a file name, and the Documents
\* folder when no document is open or the current one has no file name.
C10_LastPathOrFallback ==
    /\ [](\A fileType \in FileType :
              ~contains(settings, lastPathKey(fileType)) =>
                  lastPath(settings, fileType, currentDocument) = Fallback)
    /\ [][SetLastPathStep /\ NewArg[2] # "" =>
              /\ lastPath(settings', NewArg[1], currentDocument') = NewArg[2]
              /\ \A document \in {{}} \cup {{f} : f \in DocumentFileNames} :
                     lastPath(settings', NewArg[1], document) = NewArg[2]
              /\ \A fileType \in FileType \ {NewArg[1]} :
                     /\ settings'[lastPathKey(fileType)] = settings[lastPathKey(fileType)]
                     /\ lastPath(settings', fileType, currentDocument')
                            = lastPath(settings, fileType, currentDocument)]_vars
    /\ [][SetLastPathStep /\ NewArg[2] = "" =>
              /\ settings' = settings
              /\ \A fileType \in FileType :
                     lastPath(settings', fileType, currentDocument')
                         = lastPath(settings, fileType, currentDocument)]_vars
    /\ [][~SetLastPathStep =>
              \A fileType \in FileType :
                  settings'[lastPathKey(fileType)] = settings[lastPathKey(fileType)]]_vars

\* Two file types have last paths of their own, with a document open.
C10_Witness ==
    /\ Called("setLastPath")
    /\ Arg = <<"ImageFile", "/tiles">>
    /\ lastPath(settings, "ImageFile", currentDocument) = "/tiles"
    /\ lastPath(settings, "WorldFile", currentDocument) = "/maps"
    /\ lastPath(settings, "ProjectFile", currentDocument) = "/work"
    /\ currentDocument = {"/work/b.tmx"}

-----------------------------------------------------------------------------
(* Recent projects *)

Elements(list) == {list[i] : i \in 1..Len(list)}

NoDuplicates(list) == Cardinality(Elements(list)) = Len(list)

\* list, without the entries equal to path
Without(list, path) == SelectSeq(list, LAMBDA x : x # path)

IsPrefix(short, long) == Len(short) <= Len(long) /\ short = SubSeq(long, 1, Len(short))

AddProjectStep == lastOp'.op = "addRecentProject" /\ steps' # steps

\* C11: from an empty list on, the list of recent projects has no duplicate
\* and at most MaxRecentFiles entries.  Adding a file puts its absolute path
\* first and keeps the other entries in their order, dropping from the end
\* what exceeds MaxRecentFiles; adding a file that is in the list keeps the
\* length of the list; a file name with an empty absolute path leaves the
\* list as it is; clearRecentProjects empties the list.
C11_RecentProjects ==
    /\ [](/\ NoDuplicates(recentProjects(settings))
          /\ Len(recentProjects(settings)) <= MaxRecentFiles)
    /\ [][AddProjectStep /\ AbsoluteFilePath(NewArg) # "" =>
              LET path == AbsoluteFilePath(NewArg)
                  before == recentProjects(settings)
                  after == recentProjects(settings')
              IN /\ after[1] = path
                 /\ IsPrefix(Tail(after), Without(before, path))
                 /\ path \in Elements(before) => Len(after) = Len(before)
                 /\ path \notin Elements(before) =>
                        Len(after) = IF Len(before) < MaxRecentFiles
                                     THEN Len(before) + 1 ELSE MaxRecentFiles]_vars
    /\ [][AddProjectStep /\ AbsoluteFilePath(NewArg) = "" =>
              recentProjects(settings') = recentProjects(settings)]_vars
    /\ [][lastOp'.op = "clearRecentProjects" /\ steps' # steps =>
              recentProjects(settings') = <<>>]_vars

\* A fourth project pushed the first one out of a full list, and the second
\* one was then added again under another name.
C11_Witness ==
    /\ Called("addRecentProject")
    /\ Arg = "/maps/./b.tmx"
    /\ steps = MaxRecentProjectCalls
    /\ settings["LastPaths/Project"] = {"/maps/./b.tmx"}
    /\ recentProjects(settings) = <<"/maps/b.tmx", "/maps/d.tmx", "/maps/c.tmx">>

-----------------------------------------------------------------------------
(* The donation dialog *)

\* The date a stored string stands for, if it stands for one
DatesIn(s, key) ==
    LET dates == {[y |-> str[1], m |-> str[2], d |-> str[3]] :
                      str \in {v \in s[key] : Len(v) = 3}}
    IN {dt \in dates : dt \in Calendar}

StoredDates(key) == DatesIn(settings, key)

NotAfter(a, b) ==
    \/ a.y < b.y
    \/ a.y = b.y /\ a.m < b.m
    \/ a.y = b.y /\ a.m = b.m /\ a.d <= b.d

ReminderStep == lastOp'.op = "setDonationDialogReminder" /\ steps' # steps

\* C12: shouldShowDonationDialog() is true exactly when the user is no
\* patron, the run count is at least 7 and the stored donation dialog time
\* is a valid date that is today or earlier.  setDonationDialogReminder(d)
\* with a valid d clears the patron flag and stores d; with an invalid d it
\* leaves the patron flag as it is and stores no valid date, and
\* shouldShowDonationDialog() is then false.
C12_DonationDialog ==
    /\ [](shouldShowDonationDialog(settings, today) <=>
              /\ settings["Install/IsPatron"] # {TRUE}
              /\ \E count \in settings["Install/RunCount"] : count >= 7
              /\ \E dt \in StoredDates("Install/DonationDialogTime") : NotAfter(dt, today))
    /\ [][ReminderStep /\ IsValidDate(NewArg) =>
              /\ settings'["Install/IsPatron"] = {FALSE}
              /\ settings'["Install/DonationDialogTime"]
                     = {<<NewArg.y, NewArg.m, NewArg.d>>}
              /\ donationDialogTime(settings') = NewArg]_vars
    /\ [][ReminderStep /\ ~IsValidDate(NewArg) =>
              /\ settings'["Install/IsPatron"] = settings["Install/IsPatron"]
              /\ ~IsValidDate(donationDialogTime(settings'))
              /\ ~shouldShowDonationDialog(settings', today')]_vars

\* The seventh run of a user who was reminded on the day the reminder is due.
C12_Witness ==
    /\ shouldShowDonationDialog(settings, today)
    /\ runCount(settings) = 7
    /\ donationDialogTime(settings) = NewYear
    /\ today = NewYear
    /\ Called("day passes")

-----------------------------------------------------------------------------
(* Usage information *)

ISO(date) == <<date.y, date.m, date.d>>

\* C13: a start increases Install/RunCount by one, from 0 when it is absent;
\* it sets Install/FirstRun to the current date only when no valid date is
\* stored there, and leaves a valid one alone; it moves a stored
\* Install/PatreonDialogTime to Install/DonationDialogTime; and with neither
\* of the two stored it sets Install/DonationDialogTime to the first run
\* plus one month, or to today plus two days if that month has passed or
\* ends today, so that the new time is after the current date.
C13_UsageInformation ==
    [][StartupStep =>
          /\ settings'["Install/RunCount"] =
                 IF settings["Install/RunCount"] = {} THEN {1}
                 ELSE {count + 1 : count \in settings["Install/RunCount"]}
          /\ settings'["Install/FirstRun"] =
                 IF DatesIn(settings, "Install/FirstRun") # {}
                 THEN settings["Install/FirstRun"] ELSE {ISO(today)}
          /\ settings'["Install/PatreonDialogTime"] = {}
          /\ settings["Install/PatreonDialogTime"] # {} =>
                 settings'["Install/DonationDialogTime"] = settings["Install/PatreonDialogTime"]
          /\ (/\ settings["Install/PatreonDialogTime"] = {}
              /\ settings["Install/DonationDialogTime"] # {}) =>
                 settings'["Install/DonationDialogTime"] = settings["Install/DonationDialogTime"]
          /\ (/\ settings["Install/PatreonDialogTime"] = {}
              /\ settings["Install/DonationDialogTime"] = {}) =>
                 \E first \in DatesIn(settings', "Install/FirstRun") :
                     \E time \in DatesIn(settings', "Install/DonationDialogTime") :
                         /\ ~NotAfter(time, today)
                         /\ time = IF NotAfter(AddMonth(first), today)
                                   THEN AddDays(today, 2) ELSE AddMonth(first)]_vars

\* A start a month after the first run, with no donation dialog time stored.
C13_Witness ==
    /\ Called("Preferences")
    /\ steps = 3
    /\ settings["Install/FirstRun"] = {<<2023, 11, 30>>}
    /\ settings["Install/DonationDialogTime"] = {ISO(NewYear)}
    /\ today = FirstDay
    /\ runCount(settings) = 2

-----------------------------------------------------------------------------
(* The legacy keys and the saving of the session *)

LegacyUntouched == \A k \in LegacyKeys : settings'[k] = settings[k]

\* C14: a start removes legacy keys (recentFiles, the keys below it,
\* MapEditor/MapStates) only when it opens the default session and saving
\* that session succeeds, and the session file then holds the session of
\* the new process; when saving fails the legacy keys are as before and no
\* session file is written; when the session is not the default one the
\* legacy keys are as before and the session is as its file holds it.
C14_RemovedOnlyWhenSaved ==
    /\ [][StartupStep /\ ~LegacyUntouched =>
              /\ OpensDefault
              /\ SaveSucceeded
              /\ ~LegacyPresent(settings')
              /\ sessionFiles'[DefaultFileName] = {mSession'}
              /\ settings["MapEditor/MapStates"] # {} =>
                     \A f \in DOMAIN LegacyMapStates : mSession'.fileStates[f] # {}]_vars
    /\ [][StartupStep /\ ~SaveSucceeded =>
              /\ LegacyUntouched
              /\ sessionFiles' = sessionFiles]_vars
    /\ [][StartupStep /\ ~OpensDefault =>
              /\ LegacyUntouched
              /\ sessionFiles' = sessionFiles
              /\ mSession'.recentFiles = OnFile.recentFiles
              /\ mSession'.openFiles = OnFile.openFiles
              /\ mSession'.activeFile = OnFile.activeFile
              /\ mSession'.fileStates = OnFile.fileStates]_vars

\* A start whose save failed: the session has the legacy map states, the
\* store still has the legacy keys and no session file was written.
C14_Witness ==
    /\ Called("Preferences")
    /\ Arg = FALSE
    /\ steps >= 1
    /\ settings["recentFiles/fileNames"] = {LegacyRecentFiles.fileNames}
    /\ settings["MapEditor/MapStates"] = {LegacyMapStates}
    /\ \A f \in DOMAIN LegacyMapStates : mSession.fileStates[f] # {}
    /\ sessionFiles[DefaultFileName] = {}

=============================================================================
